---------------------------- MODULE Spec2Model ----------------------------
(***************************************************************************)
(* PacketVision: the capture-container codec (pcapParser.js), the header   *)
(* dissector (packetParser.js), the DPI inspector (dpiEngine.js), the      *)
(* analysis pipeline (analysisService.js) and the rule / analysis routes.  *)
(*                                                                         *)
(* Buffers are sequences of bytes (0..255); offsets are 0-based as in the  *)
(* source, so byte `off` of `buf` is buf[off + 1].  Text is a sequence of  *)
(* character codes, so that toLowerCase, includes and the decimal          *)
(* formatting of numbers are computed and not assumed.  A 32-bit unsigned  *)
(* word is kept as two 16-bit halves [hi, lo], because the magic number    *)
(* and a corrupt length may exceed TLC's integer range.                    *)
(***************************************************************************)
EXTENDS Integers, Sequences, FiniteSets, TLC

VARIABLES
    \* ---- codec harness: parsePcapFile / writePcapFile applied to a file
    cfile,        \* the bytes of the input container
    cphase,       \* "start" | "decoded" | "encoded" | "redecoded"
    cdecoded,     \* result of parsePcapFile(cfile)
    cencoded,     \* bytes written by writePcapFile(cdecoded.packets)
    credecoded,   \* result of parsePcapFile(cencoded)
    \* ---- uploads/ and the BlockRule collection
    upfile,       \* the bytes of the uploaded capture
    ruleStore,    \* the BlockRule documents: unique on (type, value)
    \* ---- the Analysis document and the run of runAnalysis on it
    analysis,     \* the stored document: status, error, result fields
    pc,           \* where runAnalysis stands
    runPackets,   \* const { globalHeader, packets } = parsePcapFile(filePath)
    runHeader,
    ruleSnap,     \* const rules = await BlockRule.find({ active: true })
    idx,          \* the loop variable i
    runAcc,       \* flows, counters, histograms, detectedDomains, summaries
    emitted,      \* the analysis:progress notifications, in emission order
    err,          \* the error caught at the run boundary
    summaryCap,   \* the bound on packetSummaries.length in the loop
    \* ---- the last response of the export route
    exportOut,
    \* ---- runs of runAnalysis in flight together, by analysisId
    runs,         \* each call's locals and the document it writes
    \* ---- dissection harness: parsePacket and inspect applied to a frame
    dframe,       \* the bytes of the record
    dphase,       \* "start" | "dissected" | "inspected"
    dparsed,      \* result of parsePacket(dframe, 0, header)
    ddpi          \* result of inspect(dframe, dparsed)

cvars == <<cfile, cphase, cdecoded, cencoded, credecoded>>

runvars == <<analysis, pc, runPackets, runHeader, ruleSnap, idx, runAcc, emitted,
            err>>

dvars == <<dframe, dphase, dparsed, ddpi>>

pvars == <<upfile, ruleStore, runvars, summaryCap, exportOut, runs, dvars>>

vars == <<cvars, pvars>>

-----------------------------------------------------------------------------
(* Bounds of the codec harness                                             *)

\* most records in a generated container
MaxRecs == 2
\* most bytes cut off the end of a generated container
MaxCut == 18

-----------------------------------------------------------------------------
(* Buffers and words                                                       *)

Byte == 0..255

Min(a, b) == IF a < b THEN a ELSE b

\* Buffer.slice(from, to): bytes from..to-1
Slice(buf, from, to) == SubSeq(buf, from + 1, to)

readUInt8(buf, off) == buf[off + 1]

readUInt16BE(buf, off) == buf[off + 1] * 256 + buf[off + 2]

readUInt16LE(buf, off) == buf[off + 2] * 256 + buf[off + 1]

\* a 32-bit unsigned word as its two 16-bit halves
U32(h, l) == [hi |-> h, lo |-> l]

U32Of(n) == U32(0, n)

readUInt32BE(buf, off) == U32(readUInt16BE(buf, off), readUInt16BE(buf, off + 2))

readUInt32LE(buf, off) == U32(readUInt16LE(buf, off + 2), readUInt16LE(buf, off))

\* a > b on 32-bit unsigned words
Gt32(a, b) == a.hi > b.hi \/ (a.hi = b.hi /\ a.lo > b.lo)

writeUInt16LE(n) == <<n % 256, n \div 256>>

writeUInt32LE(w) == writeUInt16LE(w.lo) \o writeUInt16LE(w.hi)

writeUInt32BE(w) ==
    <<w.hi \div 256, w.hi % 256, w.lo \div 256, w.lo % 256>>

-----------------------------------------------------------------------------
(* Container codec: pcapParser.js                                          *)

\* 0xa1b2c3d4
PCAP_MAGIC_NATIVE == U32(41394, 50132)
\* 0xd4c3b2a1
PCAP_MAGIC_SWAPPED == U32(54467, 45729)

GLOBAL_HEADER_LEN == 24
PACKET_HEADER_LEN == 16
MAX_INCL_LEN == 65535

ErrTooSmall == "File too small to contain PCAP global header"
ErrBadMagic == "Invalid PCAP magic number"

\* the reader chosen by parseGlobalHeader for the file's byte order
read16(buf, off, needsSwap) ==
    IF needsSwap THEN readUInt16BE(buf, off) ELSE readUInt16LE(buf, off)

read32(buf, off, needsSwap) ==
    IF needsSwap THEN readUInt32BE(buf, off) ELSE readUInt32LE(buf, off)

parseGlobalHeader(buffer) ==
    IF Len(buffer) < GLOBAL_HEADER_LEN
    THEN [ok |-> FALSE, error |-> ErrTooSmall]
    ELSE LET magic == readUInt32LE(buffer, 0) IN
         IF magic # PCAP_MAGIC_NATIVE /\ magic # PCAP_MAGIC_SWAPPED
         THEN [ok |-> FALSE, error |-> ErrBadMagic]
         ELSE LET needsSwap == (magic = PCAP_MAGIC_SWAPPED) IN
              [ok           |-> TRUE,
               magic        |-> magic,
               versionMajor |-> read16(buffer, 4, needsSwap),
               versionMinor |-> read16(buffer, 6, needsSwap),
               thisZone     |-> read32(buffer, 8, needsSwap),
               sigFigs      |-> read32(buffer, 12, needsSwap),
               snapLen      |-> read32(buffer, 16, needsSwap),
               network      |-> read32(buffer, 20, needsSwap),
               needsSwap    |-> needsSwap]

\* parsePacketHeader with the end-of-file test off by one (>= for >)
parsePacketHeader_offByOne(buffer, offset, needsSwap) ==
    IF offset + PACKET_HEADER_LEN >= Len(buffer)
    THEN [ok |-> FALSE]
    ELSE [ok      |-> TRUE,
          tsSec   |-> read32(buffer, offset, needsSwap),
          tsUsec  |-> read32(buffer, offset + 4, needsSwap),
          inclLen |-> read32(buffer, offset + 8, needsSwap),
          origLen |-> read32(buffer, offset + 12, needsSwap)]

\* null is [ok |-> FALSE]
parsePacketHeader(buffer, offset, needsSwap) ==
    IF offset + PACKET_HEADER_LEN > Len(buffer)
    THEN [ok |-> FALSE]
    ELSE [ok      |-> TRUE,
          tsSec   |-> read32(buffer, offset, needsSwap),
          tsUsec  |-> read32(buffer, offset + 4, needsSwap),
          inclLen |-> read32(buffer, offset + 8, needsSwap),
          origLen |-> read32(buffer, offset + 12, needsSwap)]

\* the packet header object kept in a record (without the null marker)
HeaderOf(h) ==
    [tsSec |-> h.tsSec, tsUsec |-> h.tsUsec,
     inclLen |-> h.inclLen, origLen |-> h.origLen]

\* the while loop of parsePcapFile, from `offset` with `packets` so far
RECURSIVE ParseRecords(_, _, _, _, _)
ParseRecords(fileBuffer, offset, snapLen, needsSwap, packets) ==
    IF ~(offset < Len(fileBuffer)) THEN packets
    ELSE LET pktHeader == parsePacketHeader(fileBuffer, offset, needsSwap) IN
         IF ~pktHeader.ok THEN packets
         ELSE LET off16 == offset + PACKET_HEADER_LEN IN
              IF Gt32(pktHeader.inclLen, snapLen)
                 \/ Gt32(pktHeader.inclLen, U32Of(MAX_INCL_LEN))
              THEN packets
              ELSE IF off16 + pktHeader.inclLen.lo > Len(fileBuffer)
              THEN packets
              ELSE ParseRecords(
                       fileBuffer, off16 + pktHeader.inclLen.lo, snapLen, needsSwap,
                       Append(packets,
                              [header |-> HeaderOf(pktHeader),
                               data   |-> Slice(fileBuffer, off16,
                                                off16 + pktHeader.inclLen.lo)]))

LinkTypeName(network) ==
    IF network = U32Of(1) THEN "Ethernet" ELSE "Unknown"

\* a thrown Error is [ok |-> FALSE, error |-> message]
parsePcapFile(fileBuffer) ==
    LET globalHeader == parseGlobalHeader(fileBuffer) IN
    IF ~globalHeader.ok THEN [ok |-> FALSE, error |-> globalHeader.error]
    ELSE [ok |-> TRUE,
          globalHeader |->
              [version      |-> <<globalHeader.versionMajor, globalHeader.versionMinor>>,
               snapLen      |-> globalHeader.snapLen,
               linkType     |-> globalHeader.network,
               linkTypeName |-> LinkTypeName(globalHeader.network)],
          packets |-> ParseRecords(fileBuffer, GLOBAL_HEADER_LEN,
                                   globalHeader.snapLen, globalHeader.needsSwap, <<>>)]

\* the 24-byte header writePcapFile emits: native order, 2.4, snaplen 65535, Ethernet
WrittenGlobalHeader ==
    writeUInt32LE(PCAP_MAGIC_NATIVE) \o writeUInt16LE(2) \o writeUInt16LE(4)
        \o writeUInt32LE(U32Of(0)) \o writeUInt32LE(U32Of(0))
        \o writeUInt32LE(U32Of(MAX_INCL_LEN)) \o writeUInt32LE(U32Of(1))

\* WritePacket copying the source header's lengths instead of data.length
WritePacket_headerLens(pkt) ==
    writeUInt32LE(pkt.header.tsSec) \o writeUInt32LE(pkt.header.tsUsec)
        \o writeUInt32LE(pkt.header.origLen) \o writeUInt32LE(pkt.header.origLen)
        \o pkt.data

WritePacket(pkt) ==
    writeUInt32LE(pkt.header.tsSec) \o writeUInt32LE(pkt.header.tsUsec)
        \o writeUInt32LE(U32Of(Len(pkt.data))) \o writeUInt32LE(U32Of(Len(pkt.data)))
        \o pkt.data

RECURSIVE WritePackets(_)
WritePackets(packets) ==
    IF packets = <<>> THEN <<>>
    ELSE WritePacket(Head(packets)) \o WritePackets(Tail(packets))

writePcapFile(packets) == WrittenGlobalHeader \o WritePackets(packets)

-----------------------------------------------------------------------------
(* Text: strings as sequences of character codes                           *)

\* JavaScript null where a string is expected (no character has code -1)
Null == <<-1>>

\* JavaScript truthiness of a string-or-null: neither null nor ''
Truthy(t) == t # Null /\ t # <<>>

\* a || b on strings-or-null
OrElse(a, b) == IF Truthy(a) THEN a ELSE b

LowerChar(c) == IF c >= 65 /\ c <= 90 THEN c + 32 ELSE c

\* String.prototype.toLowerCase
toLowerCase(s) == [i \in 1..Len(s) |-> LowerChar(s[i])]

\* String.prototype.includes
includes(s, p) ==
    \E i \in 0..(Len(s) - Len(p)) : SubSeq(s, i + 1, i + Len(p)) = p

\* the decimal digits of a non-negative number, as template literals print it
RECURSIVE Decimal(_)
Decimal(n) ==
    IF n < 10 THEN <<48 + n>> ELSE Decimal(n \div 10) \o <<48 + (n % 10)>>

HexDigit(d) == IF d < 10 THEN 48 + d ELSE 87 + d

\* n.toString(16).padStart(2, '0') of a byte
Hex2(b) == <<HexDigit(b \div 16), HexDigit(b % 16)>>

\* Array.prototype.join
RECURSIVE JoinWith(_, _)
JoinWith(parts, sep) ==
    IF parts = <<>> THEN <<>>
    ELSE IF Len(parts) = 1 THEN parts[1]
    ELSE parts[1] \o sep \o JoinWith(Tail(parts), sep)

\* buf.toString('ascii', start, end): the end is clamped to the buffer and
\* every byte loses its top bit
toAscii(buf, start, end) ==
    LET e == IF end > Len(buf) THEN Len(buf) ELSE end
        n == IF e > start THEN e - start ELSE 0
    IN  [i \in 1..n |-> buf[start + i] % 128]

-----------------------------------------------------------------------------
(* Header dissector: packetParser.js                                       *)

PROTOCOL_ICMP == 1
PROTOCOL_TCP == 6
PROTOCOL_UDP == 17

TCP_FLAG_FIN == 1
TCP_FLAG_SYN == 2
TCP_FLAG_RST == 4
TCP_FLAG_PSH == 8
TCP_FLAG_ACK == 16
TCP_FLAG_URG == 32

ETHERTYPE_IPV4 == 2048
ETHERNET_LEN == 14
IPV4_MIN_LEN == 20
TCP_MIN_LEN == 20
UDP_LEN == 8

\* flags & mask, for a one-bit mask
HasBit(flags, mask) == (flags \div mask) % 2 = 1

Colon == <<58>>
Dash == <<45>>
Dot == <<46>>
Space == <<32>>

parseMac(buffer, offset) ==
    JoinWith([i \in 1..6 |-> Hex2(readUInt8(buffer, offset + i - 1))], Colon)

parseIPv4(buffer, offset) ==
    JoinWith([i \in 1..4 |-> Decimal(buffer[offset + i])], Dot)

\* "SYN", "ACK", "FIN", "RST", "PSH", "URG", "none"
FlagNames ==
    [SYN |-> <<83, 89, 78>>, ACK |-> <<65, 67, 75>>, FIN |-> <<70, 73, 78>>,
     RST |-> <<82, 83, 84>>, PSH |-> <<80, 83, 72>>, URG |-> <<85, 82, 71>>,
     none |-> <<110, 111, 110, 101>>]

\* decodeTcpFlags listing the flags in the order of their bits
decodeTcpFlags_bitOrder(flags) ==
    LET p1 == IF HasBit(flags, TCP_FLAG_FIN) THEN <<FlagNames.FIN>> ELSE <<>>
        p2 == IF HasBit(flags, TCP_FLAG_SYN) THEN Append(p1, FlagNames.SYN) ELSE p1
        p3 == IF HasBit(flags, TCP_FLAG_RST) THEN Append(p2, FlagNames.RST) ELSE p2
        p4 == IF HasBit(flags, TCP_FLAG_PSH) THEN Append(p3, FlagNames.PSH) ELSE p3
        p5 == IF HasBit(flags, TCP_FLAG_ACK) THEN Append(p4, FlagNames.ACK) ELSE p4
        parts == IF HasBit(flags, TCP_FLAG_URG) THEN Append(p5, FlagNames.URG) ELSE p5
    IN  IF Len(parts) > 0 THEN JoinWith(parts, Space) ELSE FlagNames.none

decodeTcpFlags(flags) ==
    LET p1 == IF HasBit(flags, TCP_FLAG_SYN) THEN <<FlagNames.SYN>> ELSE <<>>
        p2 == IF HasBit(flags, TCP_FLAG_ACK) THEN Append(p1, FlagNames.ACK) ELSE p1
        p3 == IF HasBit(flags, TCP_FLAG_FIN) THEN Append(p2, FlagNames.FIN) ELSE p2
        p4 == IF HasBit(flags, TCP_FLAG_RST) THEN Append(p3, FlagNames.RST) ELSE p3
        p5 == IF HasBit(flags, TCP_FLAG_PSH) THEN Append(p4, FlagNames.PSH) ELSE p4
        parts == IF HasBit(flags, TCP_FLAG_URG) THEN Append(p5, FlagNames.URG) ELSE p5
    IN  IF Len(parts) > 0 THEN JoinWith(parts, Space) ELSE FlagNames.none

\* "ICMP", "TCP", "UDP", "Unknown(<num>)"
protocolName(num) ==
    CASE num = PROTOCOL_ICMP -> <<73, 67, 77, 80>>
      [] num = PROTOCOL_TCP  -> <<84, 67, 80>>
      [] num = PROTOCOL_UDP  -> <<85, 68, 80>>
      [] OTHER -> <<85, 110, 107, 110, 111, 119, 110, 40>> \o Decimal(num) \o <<41>>

\* null is [ok |-> FALSE]
NullObj == [ok |-> FALSE]

parseEthernet(data) ==
    IF Len(data) < ETHERNET_LEN THEN NullObj
    ELSE [ok        |-> TRUE,
          destMac   |-> parseMac(data, 0),
          srcMac    |-> parseMac(data, 6),
          etherType |-> readUInt16BE(data, 12)]

parseIPv4Header(data, offset) ==
    IF Len(data) < offset + IPV4_MIN_LEN THEN NullObj
    ELSE LET versionIhl == readUInt8(data, offset)
             version    == (versionIhl \div 16) % 16
             ihl        == versionIhl % 16
             headerLen  == ihl * 4
         IN  IF version # 4 THEN NullObj
             ELSE IF Len(data) < offset + headerLen THEN NullObj
             ELSE [ok           |-> TRUE,
                   version      |-> version,
                   headerLen    |-> headerLen,
                   ttl          |-> readUInt8(data, offset + 8),
                   protocol     |-> readUInt8(data, offset + 9),
                   protocolName |-> protocolName(readUInt8(data, offset + 9)),
                   srcIp        |-> parseIPv4(data, offset + 12),
                   destIp       |-> parseIPv4(data, offset + 16),
                   totalLength  |-> readUInt16BE(data, offset + 2)]

\* parseTCP without the check that the options fit in the record
parseTCP_noBound(data, offset) ==
    IF Len(data) < offset + TCP_MIN_LEN THEN NullObj
    ELSE LET dataOffset == (readUInt8(data, offset + 12) \div 16) % 16
             headerLen  == dataOffset * 4
             flags      == readUInt8(data, offset + 13)
         IN  IF headerLen < TCP_MIN_LEN
             THEN NullObj
             ELSE [ok        |-> TRUE,
                   srcPort   |-> readUInt16BE(data, offset),
                   destPort  |-> readUInt16BE(data, offset + 2),
                   seqNumber |-> readUInt32BE(data, offset + 4),
                   ackNumber |-> readUInt32BE(data, offset + 8),
                   headerLen |-> headerLen,
                   flags     |-> flags,
                   flagsStr  |-> decodeTcpFlags(flags),
                   window    |-> readUInt16BE(data, offset + 14)]

parseTCP(data, offset) ==
    IF Len(data) < offset + TCP_MIN_LEN THEN NullObj
    ELSE LET dataOffset == (readUInt8(data, offset + 12) \div 16) % 16
             headerLen  == dataOffset * 4
             flags      == readUInt8(data, offset + 13)
         IN  IF headerLen < TCP_MIN_LEN \/ Len(data) < offset + headerLen
             THEN NullObj
             ELSE [ok        |-> TRUE,
                   srcPort   |-> readUInt16BE(data, offset),
                   destPort  |-> readUInt16BE(data, offset + 2),
                   seqNumber |-> readUInt32BE(data, offset + 4),
                   ackNumber |-> readUInt32BE(data, offset + 8),
                   headerLen |-> headerLen,
                   flags     |-> flags,
                   flagsStr  |-> decodeTcpFlags(flags),
                   window    |-> readUInt16BE(data, offset + 14)]

parseUDP(data, offset) ==
    IF Len(data) < offset + UDP_LEN THEN NullObj
    ELSE [ok        |-> TRUE,
          srcPort   |-> readUInt16BE(data, offset),
          destPort  |-> readUInt16BE(data, offset + 2),
          length    |-> readUInt16BE(data, offset + 4),
          headerLen |-> UDP_LEN]

\* `${srcIp}:${srcPort}-${destIp}:${destPort}-${protocol}`
FiveTuple(srcIp, srcPort, destIp, destPort, protocol) ==
    srcIp \o Colon \o Decimal(srcPort) \o Dash
        \o destIp \o Colon \o Decimal(destPort) \o Dash \o Decimal(protocol)

\* the descriptor parsePacket builds once every header has been accepted;
\* transport is NullObj when the protocol is neither TCP nor UDP.  The
\* timestamp is kept as the record's (seconds, microseconds) words: its ISO
\* formatting is not modelled.
Descriptor(data, index, pktHeader, eth, ip, transport) ==
    LET offset        == ETHERNET_LEN + ip.headerLen
        srcPort       == IF transport.ok THEN transport.srcPort ELSE 0
        destPort      == IF transport.ok THEN transport.destPort ELSE 0
        payloadOffset == IF transport.ok THEN offset + transport.headerLen ELSE offset
        rest          == Len(data) - payloadOffset
    IN  [ok            |-> TRUE,
         index         |-> index,
         timestamp     |-> <<pktHeader.tsSec, pktHeader.tsUsec>>,
         length        |-> Len(data),
         srcMac        |-> eth.srcMac,
         destMac       |-> eth.destMac,
         srcIp         |-> ip.srcIp,
         destIp        |-> ip.destIp,
         protocol      |-> ip.protocol,
         protocolName  |-> ip.protocolName,
         ttl           |-> ip.ttl,
         srcPort       |-> srcPort,
         destPort      |-> destPort,
         tcpFlags      |-> IF transport.ok /\ ip.protocol = PROTOCOL_TCP
                           THEN transport.flagsStr ELSE Null,
         payloadOffset |-> payloadOffset,
         payloadLength |-> IF rest > 0 THEN rest ELSE 0,
         fiveTuple     |-> FiveTuple(ip.srcIp, srcPort, ip.destIp, destPort,
                                     ip.protocol)]

parsePacket(data, index, pktHeader) ==
    LET eth == parseEthernet(data) IN
    IF ~eth.ok THEN NullObj
    ELSE IF eth.etherType # ETHERTYPE_IPV4 THEN NullObj
    ELSE LET ip == parseIPv4Header(data, ETHERNET_LEN) IN
         IF ~ip.ok THEN NullObj
         ELSE LET offset == ETHERNET_LEN + ip.headerLen IN
              IF ip.protocol = PROTOCOL_TCP
              THEN LET tcp == parseTCP(data, offset) IN
                   IF ~tcp.ok THEN NullObj
                   ELSE Descriptor(data, index, pktHeader, eth, ip, tcp)
              ELSE IF ip.protocol = PROTOCOL_UDP
              THEN LET udp == parseUDP(data, offset) IN
                   IF ~udp.ok THEN NullObj
                   ELSE Descriptor(data, index, pktHeader, eth, ip, udp)
              ELSE Descriptor(data, index, pktHeader, eth, ip, NullObj)

-----------------------------------------------------------------------------
(* Application labels and the classification table: dpiEngine.js          *)

\* "Unknown"
APP_UNKNOWN == <<85, 110, 107, 110, 111, 119, 110>>
\* "HTTP"
APP_HTTP == <<72, 84, 84, 80>>
\* "HTTPS"
APP_HTTPS == <<72, 84, 84, 80, 83>>
\* "DNS"
APP_DNS == <<68, 78, 83>>
\* "Google"
APP_GOOGLE == <<71, 111, 111, 103, 108, 101>>
\* "YouTube"
APP_YOUTUBE == <<89, 111, 117, 84, 117, 98, 101>>
\* "Facebook"
APP_FACEBOOK == <<70, 97, 99, 101, 98, 111, 111, 107>>
\* "Instagram"
APP_INSTAGRAM == <<73, 110, 115, 116, 97, 103, 114, 97, 109>>
\* "Twitter/X"
APP_TWITTER == <<84, 119, 105, 116, 116, 101, 114, 47, 88>>
\* "Amazon"
APP_AMAZON == <<65, 109, 97, 122, 111, 110>>
\* "Netflix"
APP_NETFLIX == <<78, 101, 116, 102, 108, 105, 120>>
\* "GitHub"
APP_GITHUB == <<71, 105, 116, 72, 117, 98>>
\* "Discord"
APP_DISCORD == <<68, 105, 115, 99, 111, 114, 100>>
\* "Zoom"
APP_ZOOM == <<90, 111, 111, 109>>
\* "Telegram"
APP_TELEGRAM == <<84, 101, 108, 101, 103, 114, 97, 109>>
\* "TikTok"
APP_TIKTOK == <<84, 105, 107, 84, 111, 107>>
\* "Spotify"
APP_SPOTIFY == <<83, 112, 111, 116, 105, 102, 121>>
\* "Cloudflare"
APP_CLOUDFLARE == <<67, 108, 111, 117, 100, 102, 108, 97, 114, 101>>
\* "Microsoft"
APP_MICROSOFT == <<77, 105, 99, 114, 111, 115, 111, 102, 116>>
\* "Apple"
APP_APPLE == <<65, 112, 112, 108, 101>>
\* "WhatsApp"
APP_WHATSAPP == <<87, 104, 97, 116, 115, 65, 112, 112>>
\* "LinkedIn"
APP_LINKEDIN == <<76, 105, 110, 107, 101, 100, 73, 110>>
\* "Reddit"
APP_REDDIT == <<82, 101, 100, 100, 105, 116>>
\* "StackOverflow"
APP_STACKOVERFLOW == <<83, 116, 97, 99, 107, 79, 118, 101, 114, 102, 108, 111, 119>>

\* [pattern, app] in table order
DOMAIN_PATTERNS ==
    << <<<<121, 111, 117, 116, 117, 98, 101>>, APP_YOUTUBE>>,  \* youtube
       <<<<103, 111, 111, 103, 108, 101, 118, 105, 100, 101, 111>>, APP_YOUTUBE>>,  \* googlevideo
       <<<<121, 116, 105, 109, 103>>, APP_YOUTUBE>>,  \* ytimg
       <<<<102, 97, 99, 101, 98, 111, 111, 107>>, APP_FACEBOOK>>,  \* facebook
       <<<<102, 98, 99, 100, 110>>, APP_FACEBOOK>>,  \* fbcdn
       <<<<105, 110, 115, 116, 97, 103, 114, 97, 109>>, APP_INSTAGRAM>>,  \* instagram
       <<<<99, 100, 110, 105, 110, 115, 116, 97, 103, 114, 97, 109>>, APP_INSTAGRAM>>,  \* cdninstagram
       <<<<110, 101, 116, 102, 108, 105, 120>>, APP_NETFLIX>>,  \* netflix
       <<<<110, 102, 108, 120, 118, 105, 100, 101, 111>>, APP_NETFLIX>>,  \* nflxvideo
       <<<<116, 119, 105, 116, 116, 101, 114>>, APP_TWITTER>>,  \* twitter
       <<<<116, 119, 105, 109, 103>>, APP_TWITTER>>,  \* twimg
       <<<<97, 109, 97, 122, 111, 110>>, APP_AMAZON>>,  \* amazon
       <<<<97, 109, 97, 122, 111, 110, 97, 119, 115>>, APP_AMAZON>>,  \* amazonaws
       <<<<103, 105, 116, 104, 117, 98>>, APP_GITHUB>>,  \* github
       <<<<103, 105, 116, 104, 117, 98, 117, 115, 101, 114, 99, 111, 110, 116, 101, 110, 116>>, APP_GITHUB>>,  \* githubusercontent
       <<<<100, 105, 115, 99, 111, 114, 100>>, APP_DISCORD>>,  \* discord
       <<<<100, 105, 115, 99, 111, 114, 100, 97, 112, 112>>, APP_DISCORD>>,  \* discordapp
       <<<<122, 111, 111, 109>>, APP_ZOOM>>,  \* zoom
       <<<<116, 101, 108, 101, 103, 114, 97, 109>>, APP_TELEGRAM>>,  \* telegram
       <<<<116, 105, 107, 116, 111, 107>>, APP_TIKTOK>>,  \* tiktok
       <<<<116, 105, 107, 116, 111, 107, 99, 100, 110>>, APP_TIKTOK>>,  \* tiktokcdn
       <<<<115, 112, 111, 116, 105, 102, 121>>, APP_SPOTIFY>>,  \* spotify
       <<<<115, 99, 100, 110>>, APP_SPOTIFY>>,  \* scdn
       <<<<99, 108, 111, 117, 100, 102, 108, 97, 114, 101>>, APP_CLOUDFLARE>>,  \* cloudflare
       <<<<109, 105, 99, 114, 111, 115, 111, 102, 116>>, APP_MICROSOFT>>,  \* microsoft
       <<<<119, 105, 110, 100, 111, 119, 115>>, APP_MICROSOFT>>,  \* windows
       <<<<108, 105, 118, 101, 46, 99, 111, 109>>, APP_MICROSOFT>>,  \* live.com
       <<<<97, 112, 112, 108, 101>>, APP_APPLE>>,  \* apple
       <<<<105, 99, 108, 111, 117, 100>>, APP_APPLE>>,  \* icloud
       <<<<119, 104, 97, 116, 115, 97, 112, 112>>, APP_WHATSAPP>>,  \* whatsapp
       <<<<108, 105, 110, 107, 101, 100, 105, 110>>, APP_LINKEDIN>>,  \* linkedin
       <<<<114, 101, 100, 100, 105, 116>>, APP_REDDIT>>,  \* reddit
       <<<<114, 101, 100, 100, 46, 105, 116>>, APP_REDDIT>>,  \* redd.it
       <<<<115, 116, 97, 99, 107, 111, 118, 101, 114, 102, 108, 111, 119>>, APP_STACKOVERFLOW>>,  \* stackoverflow
       <<<<103, 111, 111, 103, 108, 101>>, APP_GOOGLE>>,  \* google
       <<<<103, 115, 116, 97, 116, 105, 99>>, APP_GOOGLE>>,  \* gstatic
       <<<<103, 111, 111, 103, 108, 101, 97, 112, 105, 115>>, APP_GOOGLE>> >>  \* googleapis

-----------------------------------------------------------------------------
(* DPI inspector: dpiEngine.js                                             *)

TLS_CONTENT_HANDSHAKE == 22
TLS_HANDSHAKE_CLIENT_HELLO == 1
TLS_EXTENSION_SNI == 0
TLS_SNI_TYPE_HOSTNAME == 0
TLS_VERSION_MIN == 768
TLS_VERSION_MAX == 772
TLS_MIN_LEN == 9
HTTP_SCAN_LIMIT == 2048
DNS_HEADER_LEN == 12
DNS_MAX_LABEL == 63
PORT_HTTPS == 443
PORT_HTTP == 80
PORT_DNS == 53

\* payload[i]: undefined (-1) outside the buffer
JsAt(buf, i) == IF i >= 0 /\ i < Len(buf) THEN buf[i + 1] ELSE -1

\* an undefined operand of << or | counts as 0
JsInt(b) == IF b < 0 THEN 0 ELSE b

\* (buf[offset] << 8) | buf[offset + 1]
readUint16BE(buf, offset) ==
    JsInt(JsAt(buf, offset)) * 256 + JsInt(JsAt(buf, offset + 1))

isTLSClientHello(payload, offset, length) ==
    IF length < TLS_MIN_LEN THEN FALSE
    ELSE IF JsAt(payload, offset) # TLS_CONTENT_HANDSHAKE THEN FALSE
    ELSE IF readUint16BE(payload, offset + 1) < TLS_VERSION_MIN
            \/ readUint16BE(payload, offset + 1) > TLS_VERSION_MAX THEN FALSE
    ELSE IF readUint16BE(payload, offset + 3) > length - 5 THEN FALSE
    ELSE IF JsAt(payload, offset + 5) # TLS_HANDSHAKE_CLIENT_HELLO THEN FALSE
    ELSE TRUE

\* the extension loop of extractSNI, from `offset`
RECURSIVE WalkExtensions(_, _, _)
\* WalkExtensions without the test that the extension fits in the block
RECURSIVE WalkExtensions_noBound(_, _, _)
WalkExtensions_noBound(payload, offset, extensionsEnd) ==
    IF ~(offset + 4 <= extensionsEnd) THEN Null
    ELSE LET extType == readUint16BE(payload, offset)
             extLen  == readUint16BE(payload, offset + 2)
             off4    == offset + 4
         IN  IF extType = TLS_EXTENSION_SNI
             THEN IF extLen < 5 THEN Null
                  ELSE IF JsAt(payload, off4 + 2) # TLS_SNI_TYPE_HOSTNAME THEN Null
                  ELSE LET sniLen == readUint16BE(payload, off4 + 3) IN
                       IF sniLen > extLen - 5 THEN Null
                       ELSE toAscii(payload, off4 + 5, off4 + 5 + sniLen)
             ELSE WalkExtensions_noBound(payload, off4 + extLen, extensionsEnd)

WalkExtensions(payload, offset, extensionsEnd) ==
    IF ~(offset + 4 <= extensionsEnd) THEN Null
    ELSE LET extType == readUint16BE(payload, offset)
             extLen  == readUint16BE(payload, offset + 2)
             off4    == offset + 4
         IN  IF off4 + extLen > extensionsEnd THEN Null
             ELSE IF extType = TLS_EXTENSION_SNI
             THEN IF extLen < 5 THEN Null
                  ELSE IF JsAt(payload, off4 + 2) # TLS_SNI_TYPE_HOSTNAME THEN Null
                  ELSE LET sniLen == readUint16BE(payload, off4 + 3) IN
                       IF sniLen > extLen - 5 THEN Null
                       ELSE toAscii(payload, off4 + 5, off4 + 5 + sniLen)
             ELSE WalkExtensions(payload, off4 + extLen, extensionsEnd)

extractSNI(payload, payloadOffset, payloadLength) ==
    IF ~isTLSClientHello(payload, payloadOffset, payloadLength) THEN Null
    ELSE LET end  == payloadOffset + payloadLength
             \* record header 5, handshake header 4, version 2, random 32
             off1 == payloadOffset + 5 + 4 + 2 + 32
         IN  IF off1 >= end THEN Null
             ELSE LET off2 == off1 + 1 + JsInt(JsAt(payload, off1)) IN
                  IF off2 + 2 > end THEN Null
                  ELSE LET off3 == off2 + 2 + readUint16BE(payload, off2) IN
                       IF off3 >= end THEN Null
                       ELSE LET off4 == off3 + 1 + JsInt(JsAt(payload, off3)) IN
                            IF off4 + 2 > end THEN Null
                            ELSE LET extensionsLen == readUint16BE(payload, off4)
                                     off5 == off4 + 2
                                 IN  WalkExtensions(payload, off5,
                                                    Min(off5 + extensionsLen, end))

\* 'GET ', 'POST', 'PUT ', 'HEAD', 'DELE', 'PATC', 'OPTI'
HTTP_METHODS ==
    {<<71, 69, 84, 32>>, <<80, 79, 83, 84>>, <<80, 85, 84, 32>>, <<72, 69, 65, 68>>,
     <<68, 69, 76, 69>>, <<80, 65, 84, 67>>, <<79, 80, 84, 73>>}

isHTTPRequest(payload, offset, length) ==
    IF length < 4 THEN FALSE
    ELSE toAscii(payload, offset, offset + 4) \in HTTP_METHODS

\* the characters \s matches and trim() removes, among character codes < 128
IsSpaceChar(c) == c \in {9, 10, 11, 12, 13, 32}

IsEol(c) == c \in {10, 13}

\* where /[Hh]ost:/ matches at 1-based position p of s
HostAt(s, p) ==
    /\ p + 4 <= Len(s)
    /\ s[p] \in {72, 104}
    /\ SubSeq(s, p + 1, p + 4) = <<111, 115, 116, 58>>

\* first position >= q that holds no white space (Len(s) + 1 if none)
RECURSIVE SkipSpace(_, _)
SkipSpace(s, q) ==
    IF q > Len(s) \/ ~IsSpaceChar(s[q]) THEN q ELSE SkipSpace(s, q + 1)

\* last position of the run of [^\r\n] characters starting at k
RECURSIVE LineEnd(_, _)
LineEnd(s, k) ==
    IF k + 1 > Len(s) \/ IsEol(s[k + 1]) THEN k ELSE LineEnd(s, k + 1)

\* where the group ([^\r\n]+) starts after /[Hh]ost:\s*/ matched at p, or 0:
\* \s* is greedy and gives characters back until one that is not \r or \n
CaptureStart(s, p) ==
    LET q == p + 5
        r == SkipSpace(s, q)
        back == {k \in q..(r - 1) : ~IsEol(s[k])}
    IN  IF r <= Len(s) THEN r
        ELSE IF back = {} THEN 0
        ELSE CHOOSE k \in back : \A j \in back : j <= k

\* the first match of /[Hh]ost:\s*([^\r\n]+)/ from position p on: its group, or Null
RECURSIVE HostMatch(_, _)
HostMatch(s, p) ==
    IF p + 4 > Len(s) THEN Null
    ELSE IF HostAt(s, p) /\ CaptureStart(s, p) # 0
    THEN LET k == CaptureStart(s, p) IN SubSeq(s, k, LineEnd(s, k))
    ELSE HostMatch(s, p + 1)

RECURSIVE TrimLeft(_)
TrimLeft(s) ==
    IF s # <<>> /\ IsSpaceChar(Head(s)) THEN TrimLeft(Tail(s)) ELSE s

RECURSIVE TrimRight(_)
TrimRight(s) ==
    IF s # <<>> /\ IsSpaceChar(s[Len(s)])
    THEN TrimRight(SubSeq(s, 1, Len(s) - 1)) ELSE s

\* String.prototype.trim
trim(s) == TrimRight(TrimLeft(s))

\* host.substring(0, host.indexOf(':')) when a colon is present
StripPort(host) ==
    LET colons == {i \in 1..Len(host) : host[i] = 58} IN
    IF colons = {} THEN host
    ELSE SubSeq(host, 1, (CHOOSE i \in colons : \A j \in colons : i <= j) - 1)

extractHTTPHost(payload, payloadOffset, payloadLength) ==
    IF ~isHTTPRequest(payload, payloadOffset, payloadLength) THEN Null
    ELSE LET httpStr == toAscii(payload, payloadOffset,
                                payloadOffset + Min(payloadLength, HTTP_SCAN_LIMIT))
             hostMatch == HostMatch(httpStr, 1)
         IN  IF hostMatch = Null THEN Null
             ELSE StripPort(trim(hostMatch))

\* the label loop of extractDNSQuery, from `offset` with `labels` so far
RECURSIVE DnsLabels(_, _, _, _)
DnsLabels(payload, offset, end, labels) ==
    IF ~(offset < end) THEN labels
    ELSE LET labelLen == JsInt(JsAt(payload, offset)) IN
         IF labelLen = 0 THEN labels
         ELSE IF labelLen > DNS_MAX_LABEL THEN labels
         ELSE IF offset + 1 + labelLen > end THEN labels
         ELSE DnsLabels(payload, offset + 1 + labelLen, end,
                        Append(labels,
                               toAscii(payload, offset + 1, offset + 1 + labelLen)))

\* extractDNSQuery without the test of the QR bit
extractDNSQuery_anyQr(payload, payloadOffset, payloadLength) ==
    IF payloadLength < DNS_HEADER_LEN THEN Null
    ELSE IF readUint16BE(payload, payloadOffset + 4) = 0 THEN Null
    ELSE LET labels == DnsLabels(payload, payloadOffset + DNS_HEADER_LEN,
                                 payloadOffset + payloadLength, <<>>)
         IN  IF Len(labels) > 0 THEN JoinWith(labels, Dot) ELSE Null

extractDNSQuery(payload, payloadOffset, payloadLength) ==
    IF payloadLength < DNS_HEADER_LEN THEN Null
    ELSE IF HasBit(JsInt(JsAt(payload, payloadOffset + 2)), 128) THEN Null
    ELSE IF readUint16BE(payload, payloadOffset + 4) = 0 THEN Null
    ELSE LET labels == DnsLabels(payload, payloadOffset + DNS_HEADER_LEN,
                                 payloadOffset + payloadLength, <<>>)
         IN  IF Len(labels) > 0 THEN JoinWith(labels, Dot) ELSE Null

\* the first table entry whose pattern the lower-cased name contains
RECURSIVE ClassifyFrom(_, _)
ClassifyFrom(lower, i) ==
    IF i > Len(DOMAIN_PATTERNS) THEN APP_UNKNOWN
    ELSE IF includes(lower, DOMAIN_PATTERNS[i][1]) THEN DOMAIN_PATTERNS[i][2]
    ELSE ClassifyFrom(lower, i + 1)

classifyDomain(domain) ==
    IF ~Truthy(domain) THEN APP_UNKNOWN ELSE ClassifyFrom(toLowerCase(domain), 1)

DpiResult(sni, appType, dnsQuery) ==
    [sni |-> sni, appType |-> appType, dnsQuery |-> dnsQuery]

\* LabelOf without the transport label
LabelOf_noFallback(sni, fallback) == classifyDomain(sni)

\* appType after a name was extracted: its class, or the transport label
LabelOf(sni, fallback) ==
    IF classifyDomain(sni) = APP_UNKNOWN THEN fallback ELSE classifyDomain(sni)

\* the tail of inspect shared by its two port-based exits
PortFallback(destPort) ==
    IF destPort = PORT_HTTPS THEN APP_HTTPS
    ELSE IF destPort = PORT_HTTP THEN APP_HTTP
    ELSE APP_UNKNOWN

\* NoPayloadLabel taking port 53 on the destination side only
NoPayloadLabel_destOnly(srcPort, destPort) ==
    IF destPort = PORT_HTTPS THEN APP_HTTPS
    ELSE IF destPort = PORT_HTTP THEN APP_HTTP
    ELSE IF destPort = PORT_DNS THEN APP_DNS
    ELSE APP_UNKNOWN

\* the label inspect gives a packet without payload
NoPayloadLabel(srcPort, destPort) ==
    IF destPort = PORT_HTTPS THEN APP_HTTPS
    ELSE IF destPort = PORT_HTTP THEN APP_HTTP
    ELSE IF destPort = PORT_DNS \/ srcPort = PORT_DNS THEN APP_DNS
    ELSE APP_UNKNOWN

inspect(rawData, parsedPacket) ==
    LET protocol      == parsedPacket.protocol
        srcPort       == parsedPacket.srcPort
        destPort      == parsedPacket.destPort
        payloadOffset == parsedPacket.payloadOffset
        payloadLength == parsedPacket.payloadLength
        tls == IF protocol = PROTOCOL_TCP /\ destPort = PORT_HTTPS /\ payloadLength > 5
               THEN extractSNI(rawData, payloadOffset, payloadLength) ELSE Null
        \* sni is reassigned by the HTTP attempt only when that attempt is made
        http == IF protocol = PROTOCOL_TCP /\ destPort = PORT_HTTP /\ payloadLength > 10
                THEN extractHTTPHost(rawData, payloadOffset, payloadLength) ELSE tls
    IN  IF payloadLength <= 0
        THEN DpiResult(Null, NoPayloadLabel(srcPort, destPort), Null)
        ELSE IF Truthy(tls) THEN DpiResult(tls, LabelOf(tls, APP_HTTPS), Null)
        ELSE IF Truthy(http) THEN DpiResult(http, LabelOf(http, APP_HTTP), Null)
        ELSE IF protocol = PROTOCOL_UDP /\ (destPort = PORT_DNS \/ srcPort = PORT_DNS)
        THEN LET dnsQuery == extractDNSQuery(rawData, payloadOffset, payloadLength)
             IN  DpiResult(dnsQuery, APP_DNS, dnsQuery)
        ELSE DpiResult(http, PortFallback(destPort), Null)

-----------------------------------------------------------------------------
(* Rule store: the BlockRule collection and routes/rules.js                *)

\* "ip", "domain", "app"
TYPE_IP == <<105, 112>>
TYPE_DOMAIN == <<100, 111, 109, 97, 105, 110>>
TYPE_APP == <<97, 112, 112>>

RuleTypes == {TYPE_IP, TYPE_DOMAIN, TYPE_APP}

\* a BlockRule document; `active` defaults to true
Rule(type, value, active) == [type |-> type, value |-> value, active |-> active]

\* BlockRule.find({ active: true })
ActiveRules(store) == {r \in store : r.active}

\* the unique index on (type, value): a document outside `self` holds the pair
Duplicate(store, self, type, value) ==
    \E r \in store \ self : r.type = type /\ r.value = value

-----------------------------------------------------------------------------
(* Analysis pipeline: analysisService.js                                   *)

SUMMARY_CAP == 5000

\* RuleMatches with an `ip` rule tried on the source address alone
RuleMatches_srcOnly(rule, parsedPacket, dpiResult) ==
    CASE rule.type = TYPE_IP -> parsedPacket.srcIp = rule.value
      [] rule.type = TYPE_DOMAIN ->
            /\ Truthy(dpiResult.sni)
            /\ includes(toLowerCase(dpiResult.sni), toLowerCase(rule.value))
      [] rule.type = TYPE_APP ->
            toLowerCase(dpiResult.appType) = toLowerCase(rule.value)
      [] OTHER -> FALSE

\* one rule against one packet: the switch of isBlocked
RuleMatches(rule, parsedPacket, dpiResult) ==
    CASE rule.type = TYPE_IP ->
            parsedPacket.srcIp = rule.value \/ parsedPacket.destIp = rule.value
      [] rule.type = TYPE_DOMAIN ->
            /\ Truthy(dpiResult.sni)
            /\ includes(toLowerCase(dpiResult.sni), toLowerCase(rule.value))
      [] rule.type = TYPE_APP ->
            toLowerCase(dpiResult.appType) = toLowerCase(rule.value)
      [] OTHER -> FALSE

isBlocked(parsedPacket, dpiResult, rules) ==
    \E rule \in rules :
        rule.active /\ RuleMatches(rule, parsedPacket, dpiResult)

\* the accumulators runAnalysis declares before its loop
EmptyAcc ==
    [flows           |-> <<>>,
     appCounts       |-> [k \in {} |-> 0],
     protocolCounts  |-> [k \in {} |-> 0],
     detectedDomains |-> <<>>,
     packetSummaries |-> <<>>,
     totalBytes      |-> 0,
     tcpCount        |-> 0,
     udpCount        |-> 0,
     otherCount      |-> 0,
     parsedCount     |-> 0,
     forwarded       |-> 0,
     dropped         |-> 0]

\* counts[key] = (counts[key] || 0) + 1
Bump(counts, key) ==
    IF key \in DOMAIN counts THEN [counts EXCEPT ![key] = @ + 1]
    ELSE [k \in (DOMAIN counts) \cup {key} |->
             IF k = key THEN 1 ELSE counts[k]]

\* FlowIndex finding no flow: every packet opens a flow of its own
FlowIndex_neverFound(flows, fiveTuple) == 0

\* position of the flow with this five-tuple in the flow table, 0 if none
FlowIndex(flows, fiveTuple) ==
    IF \E k \in 1..Len(flows) : flows[k].fiveTuple = fiveTuple
    THEN CHOOSE k \in 1..Len(flows) : flows[k].fiveTuple = fiveTuple
    ELSE 0

NewFlow(parsed, dpi) ==
    [fiveTuple |-> parsed.fiveTuple,
     srcIp     |-> parsed.srcIp,
     destIp    |-> parsed.destIp,
     srcPort   |-> parsed.srcPort,
     destPort  |-> parsed.destPort,
     protocol  |-> parsed.protocolName,
     sni       |-> OrElse(dpi.sni, <<>>),
     appType   |-> dpi.appType,
     packets   |-> 0,
     bytes     |-> 0,
     blocked   |-> FALSE]

\* CountedFlow adopting every name a packet carries
CountedFlow_lastWins(flow, dpi, len) ==
    LET f == [flow EXCEPT !.packets = @ + 1, !.bytes = @ + len] IN
    IF Truthy(dpi.sni)
    THEN [f EXCEPT !.sni = dpi.sni, !.appType = dpi.appType]
    ELSE f

\* the flow after packets++, bytes += and the adoption of a first name
CountedFlow(flow, dpi, len) ==
    LET f == [flow EXCEPT !.packets = @ + 1, !.bytes = @ + len] IN
    IF Truthy(dpi.sni) /\ ~Truthy(f.sni)
    THEN [f EXCEPT !.sni = dpi.sni, !.appType = dpi.appType]
    ELSE f

\* EffectiveDpi taking the packet's own name and label before the flow's
EffectiveDpi_ownFirst(flow, dpi) ==
    [sni      |-> OrElse(dpi.sni, flow.sni),
     appType  |-> OrElse(dpi.appType, flow.appType),
     dnsQuery |-> dpi.dnsQuery]

\* the name and label isBlocked is given: the flow's before the packet's own
EffectiveDpi(flow, dpi) ==
    [sni      |-> OrElse(flow.sni, dpi.sni),
     appType  |-> OrElse(flow.appType, dpi.appType),
     dnsQuery |-> dpi.dnsQuery]

Summary(i, parsed, dpi, flow, blocked) ==
    [index        |-> i,
     timestamp    |-> parsed.timestamp,
     length       |-> parsed.length,
     srcIp        |-> parsed.srcIp,
     destIp       |-> parsed.destIp,
     srcPort      |-> parsed.srcPort,
     destPort     |-> parsed.destPort,
     protocol     |-> parsed.protocol,
     protocolName |-> parsed.protocolName,
     tcpFlags     |-> parsed.tcpFlags,
     sni          |-> OrElse(dpi.sni, OrElse(flow.sni, <<>>)),
     appType      |-> OrElse(flow.appType, dpi.appType),
     blocked      |-> blocked]

\* MarkBlocked storing the verdict of the last packet
MarkBlocked_lastVerdict(flow, blocked) == [flow EXCEPT !.blocked = blocked]

\* if (blocked) flow.blocked = true
MarkBlocked(flow, blocked) ==
    IF blocked THEN [flow EXCEPT !.blocked = TRUE] ELSE flow

\* the verdict of the packet being processed, given its (counted) flow
Verdict(parsed, dpi, flow, rules) ==
    isBlocked(parsed, EffectiveDpi(flow, dpi), rules)

\* WithDomain recording the label seen last for a name
WithDomain_lastLabel(domains, dpi) ==
    IF ~Truthy(dpi.sni) THEN domains
    ELSE IF \E d \in 1..Len(domains) : domains[d].domain = dpi.sni
    THEN [d \in 1..Len(domains) |->
             IF domains[d].domain = dpi.sni
             THEN [domain |-> dpi.sni, appType |-> dpi.appType]
             ELSE domains[d]]
    ELSE Append(domains, [domain |-> dpi.sni, appType |-> dpi.appType])

\* the detected-domain list after one processed packet: a name not yet in
\* the list is appended with the packet's label
WithDomain(domains, dpi) ==
    IF Truthy(dpi.sni)
       /\ ~\E d \in 1..Len(domains) : domains[d].domain = dpi.sni
    THEN Append(domains, [domain |-> dpi.sni, appType |-> dpi.appType])
    ELSE domains

\* a cap that admits one summary more than the bound
WithSummary_oneMore(summaries, summary) ==
    IF Len(summaries) <= summaryCap THEN Append(summaries, summary)
    ELSE summaries

\* the summary list after one processed packet: the summary is kept while the
\* list is shorter than the bound, which is SUMMARY_CAP in the program
\* (summaryCap holds it, so that a harness can scale the bound down)
WithSummary(summaries, summary) ==
    IF Len(summaries) < summaryCap THEN Append(summaries, summary)
    ELSE summaries

\* one iteration of the loop body after a successful parsePacket; i is the
\* 0-based index of the record
ProcessParsed(acc, data, i, parsed, rules) ==
    LET dpi     == inspect(data, parsed)
        at      == FlowIndex(acc.flows, parsed.fiveTuple)
        flows1  == IF at = 0 THEN Append(acc.flows, NewFlow(parsed, dpi))
                   ELSE acc.flows
        k       == IF at = 0 THEN Len(flows1) ELSE at
        flow    == CountedFlow(flows1[k], dpi, Len(data))
        blocked == Verdict(parsed, dpi, flow, rules)
        flow2   == MarkBlocked(flow, blocked)
        app     == OrElse(flow2.appType, dpi.appType)
    IN  [flows           |-> [flows1 EXCEPT ![k] = flow2],
         appCounts       |-> Bump(acc.appCounts, app),
         protocolCounts  |-> Bump(acc.protocolCounts, parsed.protocolName),
         detectedDomains |-> WithDomain(acc.detectedDomains, dpi),
         packetSummaries |->
             WithSummary(acc.packetSummaries,
                         Summary(i, parsed, dpi, flow2, blocked)),
         totalBytes      |-> acc.totalBytes + Len(data),
         tcpCount        |-> acc.tcpCount
                               + (IF parsed.protocol = PROTOCOL_TCP THEN 1 ELSE 0),
         udpCount        |-> acc.udpCount
                               + (IF parsed.protocol = PROTOCOL_UDP THEN 1 ELSE 0),
         otherCount      |-> acc.otherCount
                               + (IF parsed.protocol \notin {PROTOCOL_TCP, PROTOCOL_UDP}
                                  THEN 1 ELSE 0),
         parsedCount     |-> acc.parsedCount + 1,
         forwarded       |-> acc.forwarded + (IF blocked THEN 0 ELSE 1),
         dropped         |-> acc.dropped + (IF blocked THEN 1 ELSE 0)]

\* ProcessOne adding the bytes of a record before it is dissected
ProcessOne_countsBytesFirst(acc, pkts, i, rules) ==
    LET data   == pkts[i + 1].data
        parsed == parsePacket(data, i, pkts[i + 1].header)
    IN  IF ~parsed.ok THEN [acc EXCEPT !.totalBytes = @ + Len(data)]
        ELSE ProcessParsed(acc, data, i, parsed, rules)

\* one iteration of the loop over packets[i] (0-based i)
ProcessOne(acc, pkts, i, rules) ==
    LET data   == pkts[i + 1].data
        parsed == parsePacket(data, i, pkts[i + 1].header)
    IN  IF ~parsed.ok THEN acc ELSE ProcessParsed(acc, data, i, parsed, rules)

\* the progress notifications of iteration i, if it emits one
ProgressDue(i, totalPackets) ==
    LET step == IF totalPackets \div 10 > 1 THEN totalPackets \div 10 ELSE 1
    IN  i % step = 0

\* the percentage counting the packets still to go
ProgressOf_remaining(i, totalPackets) ==
    10 + ((totalPackets - i) * 80) \div totalPackets

ProgressOf(i, totalPackets) == 10 + (i * 80) \div totalPackets

Note(status, progress) == [status |-> status, progress |-> progress]

\* the patch runAnalysis writes on success
CompletedPatch(globalHeader, totalPackets, acc) ==
    [pcapVersion       |-> globalHeader.version,
     linkType          |-> globalHeader.linkTypeName,
     stats             |-> [totalPackets  |-> totalPackets,
                            parsedPackets |-> acc.parsedCount,
                            totalBytes    |-> acc.totalBytes,
                            tcpPackets    |-> acc.tcpCount,
                            udpPackets    |-> acc.udpCount,
                            otherPackets  |-> acc.otherCount,
                            totalFlows    |-> Len(acc.flows),
                            forwarded     |-> acc.forwarded,
                            dropped       |-> acc.dropped],
     appBreakdown      |-> acc.appCounts,
     protocolBreakdown |-> acc.protocolCounts,
     detectedDomains   |-> acc.detectedDomains,
     flows             |-> acc.flows,
     packets           |-> acc.packetSummaries,
     status            |-> "completed"]

ErrDb == "database operation failed"

-----------------------------------------------------------------------------
(* Filtered export: routes/analysis.js                                     *)

\* the rule loop of the export route, on the packet's own DPI result
ExportBlocked(parsed, dpi, rules) ==
    \E rule \in rules :
        /\ rule.active
        /\ \/ rule.type = TYPE_IP
              /\ (parsed.srcIp = rule.value \/ parsed.destIp = rule.value)
           \/ rule.type = TYPE_DOMAIN
              /\ Truthy(dpi.sni)
              /\ includes(toLowerCase(dpi.sni), toLowerCase(rule.value))
           \/ rule.type = TYPE_APP
              /\ toLowerCase(dpi.appType) = toLowerCase(rule.value)

\* ExportKeeps dropping the records parsePacket rejects
ExportKeeps_dropsUnparsed(pkts, i, rules) ==
    LET data   == pkts[i + 1].data
        parsed == parsePacket(data, i, pkts[i + 1].header)
    IN  IF ~parsed.ok THEN FALSE
        ELSE ~ExportBlocked(parsed, inspect(data, parsed), rules)

\* whether the export keeps packets[i] (0-based i)
ExportKeeps(pkts, i, rules) ==
    LET data   == pkts[i + 1].data
        parsed == parsePacket(data, i, pkts[i + 1].header)
    IN  IF ~parsed.ok THEN TRUE
        ELSE ~ExportBlocked(parsed, inspect(data, parsed), rules)

\* the filter loop of the export route, from record i on
RECURSIVE FilterPackets(_, _, _)
FilterPackets(pkts, i, rules) ==
    IF i >= Len(pkts) THEN <<>>
    ELSE (IF ExportKeeps(pkts, i, rules) THEN <<pkts[i + 1]>> ELSE <<>>)
             \o FilterPackets(pkts, i + 1, rules)

-----------------------------------------------------------------------------
(* Codec harness: containers drawn from a bounded set, then decoded,       *)
(* re-encoded and decoded again.                                           *)

\* payloads of generated records
DataChoices == {<<>>, <<7>>, <<1, 2, 3>>}

\* a generated record: its bytes, and whether its captured-length field is
\* the true length or a corrupt 65536
RecTemplates == [data : DataChoices, declared : {"actual", "huge"}]

\* declared snapshot lengths: 2, 65535 and 262144
SnapChoices == {U32Of(2), U32Of(MAX_INCL_LEN), U32(4, 0)}

\* first four bytes: little-endian file, big-endian file, a pcapng file
MagicBytes(kind) ==
    CASE kind = "le" -> writeUInt32LE(PCAP_MAGIC_NATIVE)
      [] kind = "be" -> writeUInt32BE(PCAP_MAGIC_NATIVE)
      [] OTHER       -> <<10, 13, 13, 10>>

Put16(n, be) == IF be THEN <<n \div 256, n % 256>> ELSE writeUInt16LE(n)

Put32(w, be) == IF be THEN writeUInt32BE(w) ELSE writeUInt32LE(w)

GenGlobalHeader(kind, snapLen) ==
    LET be == (kind = "be") IN
    MagicBytes(kind) \o Put16(2, be) \o Put16(4, be)
        \o Put32(U32Of(0), be) \o Put32(U32Of(0), be)
        \o Put32(snapLen, be) \o Put32(U32Of(1), be)

GenRecord(t, ts, be) ==
    LET n == Len(t.data)
        incl == IF t.declared = "huge" THEN U32(1, 0) ELSE U32Of(n)
        orig == IF n = 1 THEN U32Of(60) ELSE incl
    IN  Put32(U32Of(ts), be) \o Put32(U32Of(0), be)
            \o Put32(incl, be) \o Put32(orig, be) \o t.data

RECURSIVE GenRecords(_, _, _)
GenRecords(ts, from, be) ==
    IF from > Len(ts) THEN <<>>
    ELSE GenRecord(ts[from], from, be) \o GenRecords(ts, from + 1, be)

GenFile(kind, snapLen, ts) ==
    GenGlobalHeader(kind, snapLen) \o GenRecords(ts, 1, kind = "be")

TemplateSeqs == UNION {[1..n -> RecTemplates] : n \in 0..MaxRecs}

CodecFiles ==
    {SubSeq(f, 1, Len(f) - c) :
        f \in {GenFile(k, s, ts) : k \in {"le", "be", "bad"},
                                   s \in SnapChoices, ts \in TemplateSeqs},
        c \in 0..MaxCut}

-----------------------------------------------------------------------------
(* Pipeline harness: captures built from a small catalogue of frames       *)

IpA == <<10, 0, 0, 5>>
IpB == <<10, 0, 0, 9>>
IpC == <<10, 0, 0, 7>>

\* "zoom.us"
NameZoom == <<122, 111, 111, 109, 46, 117, 115>>
\* "x.io"
NameOther == <<120, 46, 105, 111>>

EthHeader(etherType) ==
    <<2, 0, 0, 0, 0, 1, 2, 0, 0, 0, 0, 2>> \o <<etherType \div 256, etherType % 256>>

IpHeader(protocol, src, dst, totalLength) ==
    <<69, 0, totalLength \div 256, totalLength % 256, 0, 0, 0, 0, 64, protocol, 0, 0>>
        \o src \o dst

TcpHeader(srcPort, destPort, flags) ==
    <<srcPort \div 256, srcPort % 256, destPort \div 256, destPort % 256,
      0, 0, 0, 1, 0, 0, 0, 0, 80, flags, 16, 0, 0, 0, 0, 0>>

UdpHeader(srcPort, destPort, length) ==
    <<srcPort \div 256, srcPort % 256, destPort \div 256, destPort % 256,
      length \div 256, length % 256, 0, 0>>

TcpFrame(src, srcPort, dst, destPort, flags, payload) ==
    EthHeader(ETHERTYPE_IPV4)
        \o IpHeader(PROTOCOL_TCP, src, dst, 40 + Len(payload))
        \o TcpHeader(srcPort, destPort, flags) \o payload

UdpFrame(src, srcPort, dst, destPort, payload) ==
    EthHeader(ETHERTYPE_IPV4)
        \o IpHeader(PROTOCOL_UDP, src, dst, 28 + Len(payload))
        \o UdpHeader(srcPort, destPort, 8 + Len(payload)) \o payload

Zeros(n) == [i \in 1..n |-> 0]

\* a TLS 1.2 ClientHello whose only extension is server_name
ClientHello(name) ==
    LET n    == Len(name)
        ext  == <<0, 0, 0, n + 5, 0, n + 3, 0, 0, n>> \o name
        body == <<3, 3>> \o Zeros(32) \o <<0>> \o <<0, 2, 19, 1>> \o <<1, 0>>
                    \o <<0, Len(ext)>> \o ext
        hs   == <<1, 0, 0, Len(body)>> \o body
    IN  <<22, 3, 1, 0, Len(hs)>> \o hs

\* a DNS query for one name given as its labels
DnsQuery(labels) ==
    <<18, 52, 1, 0, 0, 1, 0, 0, 0, 0, 0, 0>>
        \o JoinWith([i \in 1..Len(labels) |-> <<Len(labels[i])>> \o labels[i]], <<>>)
        \o <<0, 0, 1, 0, 1>>

\* 10.0.0.5:40000 -> 10.0.0.9:443, ClientHello for zoom.us
FrameHello == TcpFrame(IpA, 40000, IpB, 443, 24, ClientHello(NameZoom))
\* the same flow, a second ClientHello, for x.io
FrameHelloB == TcpFrame(IpA, 40000, IpB, 443, 24, ClientHello(NameOther))
\* the same flow, six bytes of TLS application data
FrameData == TcpFrame(IpA, 40000, IpB, 443, 24, <<23, 3, 3, 0, 1, 0>>)
\* 10.0.0.7:5353 -> 10.0.0.9:53, DNS query for zoom.us
FrameDns == UdpFrame(IpC, 5353, IpB, 53, DnsQuery(<<SubSeq(NameZoom, 1, 4),
                                                     SubSeq(NameZoom, 6, 7)>>))
\* 10.0.0.9:443 -> 10.0.0.5:40000, a bare ACK in the other direction
FrameReply == TcpFrame(IpB, 443, IpA, 40000, 16, <<>>)
\* an ARP frame: not IPv4, so parsePacket returns null
FrameArp == EthHeader(2054) \o Zeros(28)

Catalogue == {FrameHello, FrameHelloB, FrameData, FrameReply, FrameDns, FrameArp}

\* most records in an uploaded capture
MaxPkts == 2

FrameSeqs == UNION {[1..n -> Catalogue] : n \in 0..MaxPkts}

\* a little-endian capture holding the frames, record k stamped k seconds
RECURSIVE CaptureRecords(_, _)
CaptureRecords(frames, from) ==
    IF from > Len(frames) THEN <<>>
    ELSE writeUInt32LE(U32Of(from)) \o writeUInt32LE(U32Of(0))
             \o writeUInt32LE(U32Of(Len(frames[from])))
             \o writeUInt32LE(U32Of(Len(frames[from])))
             \o frames[from] \o CaptureRecords(frames, from + 1)

Capture(frames) ==
    GenGlobalHeader("le", U32Of(MAX_INCL_LEN)) \o CaptureRecords(frames, 1)

\* a pcapng file: the upload filter accepts its name, the decoder rejects it
BadCapture == GenGlobalHeader("bad", U32Of(MAX_INCL_LEN))

\* a file that ends inside its global header
ShortCapture == SubSeq(Capture(<<>>), 1, GLOBAL_HEADER_LEN - 1)

Uploads == {Capture(fs) : fs \in FrameSeqs} \cup {BadCapture, ShortCapture}

\* captures of exactly MaxPkts frames of the one TLS flow
FlowUploads == {Capture(fs) : fs \in [1..MaxPkts -> {FrameHello, FrameData}]}

\* the rules a request may name: ip 10.0.0.5, domain ZOOM, app https
RuleInputs ==
    {<<TYPE_IP, <<49, 48, 46, 48, 46, 48, 46, 53>>>>,
     <<TYPE_DOMAIN, <<90, 79, 79, 77>>>>,
     <<TYPE_APP, <<104, 116, 116, 112, 115>>>>}

\* the rule stores a run may find: any of these rules, each active
InitialStores == SUBSET {Rule(in[1], in[2], TRUE) : in \in RuleInputs}

-----------------------------------------------------------------------------
(* Dissection harness: frames for parsePacket and inspect                  *)

\* buf with the byte at 0-based position `at` replaced, if it has one
WithByte(buf, at, b) ==
    IF at < Len(buf) THEN [buf EXCEPT ![at + 1] = b] ELSE buf

Prefixes(buf) == {SubSeq(buf, 1, n) : n \in 0..Len(buf)}

\* the IHL nibbles and TCP data-offset nibbles tried
IhlChoices == {0, 4, 5, 6, 15}
DataOffsetChoices == {0, 4, 5, 6, 15}

\* an ICMP echo request, 10.0.0.5 -> 10.0.0.9
FrameIcmp ==
    EthHeader(ETHERTYPE_IPV4) \o IpHeader(PROTOCOL_ICMP, IpA, IpB, 36)
        \o <<8, 0, 0, 0, 0, 1, 0, 1>> \o Zeros(8)

\* every prefix of the ClientHello frame under every IHL and data offset
TcpShapes ==
    UNION {Prefixes(WithByte(WithByte(FrameHello, 14, 64 + ihl), 46, 16 * off)) :
               ihl \in IhlChoices, off \in DataOffsetChoices}

\* every prefix of the DNS, ICMP and ARP frames under every IHL
OtherShapes ==
    UNION {Prefixes(WithByte(f, 14, 64 + ihl)) :
               f \in {FrameDns, FrameIcmp, FrameArp}, ihl \in IhlChoices}

\* a bare TCP segment for every value of the flag byte
FlagFrames == {TcpFrame(IpA, 40000, IpB, 443, f, <<>>) : f \in 0..255}

PortChoices == {PORT_HTTPS, PORT_HTTP, PORT_DNS, 40000}

\* TCP and UDP frames without payload between every pair of ports
ZeroPayloadFrames ==
    {TcpFrame(IpA, sp, IpB, dp, 2, <<>>) : sp \in PortChoices, dp \in PortChoices}
        \cup {UdpFrame(IpA, sp, IpB, dp, <<>>) : sp \in PortChoices, dp \in PortChoices}
        \cup {EthHeader(ETHERTYPE_IPV4) \o IpHeader(PROTOCOL_ICMP, IpA, IpB, 20)}

\* "GET / HTTP/1.1\r\n"
HttpRequestLine ==
    <<71, 69, 84, 32, 47, 32, 72, 84, 84, 80, 47, 49, 46, 49, 13, 10>>

\* "Host: ", "host:", "HOST: ", "Host:  \t" and "hOsT: "
HostKeys ==
    {<<72, 111, 115, 116, 58, 32>>, <<104, 111, 115, 116, 58>>,
     <<72, 79, 83, 84, 58, 32>>, <<72, 111, 115, 116, 58, 32, 32, 9>>,
     <<104, 79, 115, 84, 58, 32>>}

\* "zoom.us", "x.io", "x.io:8080", "x.io " and the empty value
HostValues ==
    {NameZoom, NameOther, NameOther \o <<58, 56, 48, 56, 48>>,
     NameOther \o <<32>>, <<>>}

\* a GET request with one Host line
HttpGet(key, value) ==
    HttpRequestLine \o key \o value \o <<13, 10, 13, 10>>

\* requests to port 80 and to port 8080, and a request without a Host line
HttpFrames ==
    {TcpFrame(IpA, 40000, IpB, dp, 24, HttpGet(k, v)) :
         k \in HostKeys, v \in HostValues, dp \in {PORT_HTTP, 8080}}
        \cup {TcpFrame(IpA, 40000, IpB, PORT_HTTP, 24,
                       HttpRequestLine \o <<13, 10>>)}
        \* "GET Host:x" (10 bytes) and "GET Host:xy" (11 bytes)
        \cup {TcpFrame(IpA, 40000, IpB, PORT_HTTP, 24,
                       <<71, 69, 84, 32, 72, 111, 115, 116, 58>> \o v) :
                   v \in {<<120>>, <<120, 121>>}}

\* "GET ", "POST ", "PUT ", "HEAD ", "DELETE ", "PATCH ", "OPTIONS " and,
\* not a method the inspector knows, "TRACE "
MethodWords ==
    {<<71, 69, 84, 32>>, <<80, 79, 83, 84, 32>>, <<80, 85, 84, 32>>,
     <<72, 69, 65, 68, 32>>, <<68, 69, 76, 69, 84, 69, 32>>,
     <<80, 65, 84, 67, 72, 32>>, <<79, 80, 84, 73, 79, 78, 83, 32>>,
     <<84, 82, 65, 67, 69, 32>>}

\* a request of every method to port 80: "<method> / HTTP/1.1", then a line
\* "Accept: x" and the line "Host: x.io:8080"
HttpMethodFrames ==
    {TcpFrame(IpA, 40000, IpB, PORT_HTTP, 24,
              m \o SubSeq(HttpRequestLine, 5, 16)
                \o <<65, 99, 99, 101, 112, 116, 58, 32, 120, 13, 10>>
                \o <<72, 111, 115, 116, 58, 32>> \o NameOther
                \o <<58, 56, 48, 56, 48, 13, 10, 13, 10>>) : m \in MethodWords}

\* a GET to port 80 with the line "X-Host: zoom.us" before "Host: x.io"
HttpTwoHostsFrame ==
    TcpFrame(IpA, 40000, IpB, PORT_HTTP, 24,
             HttpRequestLine \o <<88, 45, 72, 111, 115, 116, 58, 32>> \o NameZoom
                 \o <<13, 10, 72, 111, 115, 116, 58, 32>> \o NameOther
                 \o <<13, 10, 13, 10>>)

\* ClientHellos to port 443 and to port 8443, known name and unknown
TlsFrames ==
    {TcpFrame(IpA, 40000, IpB, dp, 24, ClientHello(n)) :
         n \in {NameZoom, NameOther, <<>>}, dp \in {PORT_HTTPS, 8443}}

\* a ClientHello with an extension before server_name and one after it
ClientHelloPadded(name) ==
    LET n    == Len(name)
        exts == <<0, 10, 0, 4, 0, 2, 0, 29>>
                    \o <<0, 0, 0, n + 5, 0, n + 3, 0, 0, n>> \o name
                    \o <<0, 11, 0, 2, 1, 0>>
        body == <<3, 3>> \o Zeros(32) \o <<0>> \o <<0, 2, 19, 1>> \o <<1, 0>>
                    \o <<0, Len(exts)>> \o exts
        hs   == <<1, 0, 0, Len(body)>> \o body
    IN  <<22, 3, 1, 0, Len(hs)>> \o hs

FrameHelloPadded == TcpFrame(IpA, 40000, IpB, 443, 24, ClientHelloPadded(NameOther))

\* where the TCP payload of these frames starts
HelloPayloadAt == ETHERNET_LEN + IPV4_MIN_LEN + TCP_MIN_LEN

\* the ClientHello frames with one payload byte replaced
TlsMutations ==
    {WithByte(f, at, b) :
         f \in {FrameHello, FrameHelloPadded},
         at \in HelloPayloadAt..(Len(FrameHelloPadded) - 1),
         b \in {0, 1, 255}}

\* the first n bytes of a ClientHello frame as one TCP segment carries them:
\* the record length rewritten to what the segment holds
Segment(f, n) ==
    WithByte(WithByte(SubSeq(f, 1, n), HelloPayloadAt + 3,
                      (n - HelloPayloadAt - 5) \div 256),
             HelloPayloadAt + 4, (n - HelloPayloadAt - 5) % 256)

TlsSegments ==
    UNION {{Segment(f, n) : n \in (HelloPayloadAt + 5)..Len(f)} :
               f \in {FrameHello, FrameHelloPadded}}

\* most labels in a generated DNS name
MaxDnsLabels == 3

\* "api", "service", "com", "zoom"
DnsLabelPool ==
    {<<97, 112, 105>>, <<115, 101, 114, 118, 105, 99, 101>>,
     <<99, 111, 109>>, <<122, 111, 111, 109>>}

DnsNames == UNION {[1..n -> DnsLabelPool] : n \in 0..MaxDnsLabels}

\* a DNS message: the flags byte, the question count, one encoded name
DnsMessage(flags, qdCount, labels) ==
    <<18, 52, flags, 0, qdCount \div 256, qdCount % 256, 0, 0, 0, 0, 0, 0>>
        \o JoinWith([i \in 1..Len(labels) |-> <<Len(labels[i])>> \o labels[i]], <<>>)
        \o <<0, 0, 1, 0, 1>>

\* queries and responses, to port 53 and from it
DnsFrames ==
    {UdpFrame(IpC, ports[1], IpB, ports[2], DnsMessage(flags, qd, name)) :
         ports \in {<<5353, PORT_DNS>>, <<PORT_DNS, 5353>>},
         flags \in {1, 129}, qd \in {0, 1}, name \in DnsNames}

\* a name cut by a compression pointer, and a message shorter than a header
DnsOddFrames ==
    {UdpFrame(IpC, 5353, IpB, PORT_DNS,
              <<18, 52, 1, 0, 0, 1, 0, 0, 0, 0, 0, 0, 3, 97, 112, 105, 192, 12>>),
     UdpFrame(IpC, 5353, IpB, PORT_DNS, <<18, 52, 1, 0, 0, 1>>),
     UdpFrame(IpC, 5353, IpB, PORT_DNS,
              <<18, 52, 1, 0, 0, 1, 0, 0, 0, 0, 0, 0, 9, 97, 112, 105>>)}

DpiFrames ==
    TcpShapes \cup OtherShapes \cup FlagFrames \cup ZeroPayloadFrames
        \cup HttpFrames \cup HttpMethodFrames \cup {HttpTwoHostsFrame}
        \cup TlsFrames \cup TlsMutations \cup TlsSegments
        \cup DnsFrames \cup DnsOddFrames

\* the record header the harness hands to parsePacket
HarnessHeader(data) ==
    [tsSec |-> U32Of(1), tsUsec |-> U32Of(0),
     inclLen |-> U32Of(Len(data)), origLen |-> U32Of(Len(data))]

-----------------------------------------------------------------------------
(* Initial values                                                          *)

NoResult == [ok |-> FALSE, error |-> "none"]

\* no Analysis document yet
NoAnalysis == [status |-> "none", error |-> "", result |-> <<>>]

\* no export response yet
NoExport == [code |-> 0, body |-> <<>>]

CodecIdle ==
    /\ cfile = <<>>
    /\ cphase = "off"
    /\ cdecoded = NoResult
    /\ cencoded = <<>>
    /\ credecoded = NoResult

DpiIdle ==
    /\ dframe = <<>>
    /\ dphase = "off"
    /\ dparsed = NullObj
    /\ ddpi = NullObj

\* the documents of the runs in flight together
AnalysisIds == {1, 2}

\* a run not yet started: no document, no locals
IdleRun ==
    [pc |-> "idle", file |-> <<>>, doc |-> NoAnalysis, packets |-> <<>>,
     globalHeader |-> <<>>, rules |-> {}, acc |-> EmptyAcc, emitted |-> <<>>,
     err |-> ""]

RunIdle ==
    /\ runs = [id \in AnalysisIds |-> IdleRun]
    /\ analysis = NoAnalysis
    /\ pc = "idle"
    /\ runPackets = <<>>
    /\ runHeader = <<>>
    /\ ruleSnap = {}
    /\ idx = 0
    /\ runAcc = EmptyAcc
    /\ emitted = <<>>
    /\ err = ""
    /\ exportOut = NoExport

-----------------------------------------------------------------------------
(* Codec harness actions                                                   *)

CodecInit ==
    /\ cfile \in CodecFiles
    /\ cphase = "start"
    /\ cdecoded = NoResult
    /\ cencoded = <<>>
    /\ credecoded = NoResult
    /\ upfile = <<>>
    /\ ruleStore = {}
    /\ summaryCap = SUMMARY_CAP
    /\ RunIdle
    /\ DpiIdle

Decode ==
    /\ cphase = "start"
    /\ cdecoded' = parsePcapFile(cfile)
    /\ cphase' = "decoded"
    /\ UNCHANGED <<cfile, cencoded, credecoded, pvars>>

Encode ==
    /\ cphase = "decoded"
    /\ cdecoded.ok
    /\ cencoded' = writePcapFile(cdecoded.packets)
    /\ cphase' = "encoded"
    /\ UNCHANGED <<cfile, cdecoded, credecoded, pvars>>

Redecode ==
    /\ cphase = "encoded"
    /\ credecoded' = parsePcapFile(cencoded)
    /\ cphase' = "redecoded"
    /\ UNCHANGED <<cfile, cdecoded, cencoded, pvars>>

CodecNext == Decode \/ Encode \/ Redecode

SpecCodec == CodecInit /\ [][CodecNext]_vars

-----------------------------------------------------------------------------
(* Dissection harness actions                                              *)

DpiInit ==
    /\ CodecIdle
    /\ upfile = <<>>
    /\ ruleStore = {}
    /\ summaryCap = SUMMARY_CAP
    /\ RunIdle
    /\ dframe \in DpiFrames
    /\ dphase = "start"
    /\ dparsed = NullObj
    /\ ddpi = NullObj

Dissect ==
    /\ dphase = "start"
    /\ dparsed' = parsePacket(dframe, 0, HarnessHeader(dframe))
    /\ dphase' = "dissected"
    /\ UNCHANGED <<cvars, runs, upfile, ruleStore, runvars, summaryCap, exportOut,
                   dframe, ddpi>>

Inspect ==
    /\ dphase = "dissected"
    /\ dparsed.ok
    /\ ddpi' = inspect(dframe, dparsed)
    /\ dphase' = "inspected"
    /\ UNCHANGED <<cvars, runs, upfile, ruleStore, runvars, summaryCap, exportOut,
                   dframe, dparsed>>

DpiNext == Dissect \/ Inspect

SpecDpi == DpiInit /\ [][DpiNext]_vars

-----------------------------------------------------------------------------
(* Rule routes: routes/rules.js                                            *)

\* POST /api/rules: a new active rule; an existing (type, value) is a 409
\* and leaves the store as it is
CreateRule ==
    /\ \E in \in RuleInputs :
        /\ ~Duplicate(ruleStore, {}, in[1], in[2])
        /\ ruleStore' = ruleStore \cup {Rule(in[1], in[2], TRUE)}
    /\ UNCHANGED <<cvars, runs, dvars, summaryCap, upfile, runvars, exportOut>>

\* PUT /api/rules/:id: the body may replace type and value and set active;
\* a (type, value) another document holds is an error that changes nothing
UpdateRule ==
    /\ \E rule \in ruleStore :
       \E in \in RuleInputs \cup {<<rule.type, rule.value>>}, active \in BOOLEAN :
        /\ Rule(in[1], in[2], active) # rule
        /\ ~Duplicate(ruleStore, {rule}, in[1], in[2])
        /\ ruleStore' = (ruleStore \ {rule}) \cup {Rule(in[1], in[2], active)}
    /\ UNCHANGED <<cvars, runs, dvars, summaryCap, upfile, runvars, exportOut>>

\* DELETE /api/rules/:id
DeleteRule ==
    /\ \E rule \in ruleStore : ruleStore' = ruleStore \ {rule}
    /\ UNCHANGED <<cvars, runs, dvars, summaryCap, upfile, runvars, exportOut>>

-----------------------------------------------------------------------------
(* POST /api/analysis/upload and runAnalysis                               *)

\* RunRules reading the store at every packet
RunRules_live == ActiveRules(ruleStore)

\* the rules the loop hands to isBlocked: the `rules` read before the loop
RunRules == ruleSnap

\* The upload route saves the document with status 'processing' and calls
\* runAnalysis, which runs up to its first await: two notifications and the
\* decode of the file.  A decode error is caught inside runAnalysis.
Upload ==
    /\ pc = "idle"
    /\ analysis' = [status |-> "processing", error |-> "", result |-> <<>>]
    /\ emitted' = <<Note("processing", 0), Note("processing", 5)>>
    /\ LET parsed == parsePcapFile(upfile) IN
       IF parsed.ok
       THEN /\ runPackets' = parsed.packets
            /\ runHeader' = parsed.globalHeader
            /\ pc' = "rules"
            /\ err' = err
       ELSE /\ err' = parsed.error
            /\ pc' = "catch"
            /\ UNCHANGED <<runPackets, runHeader>>
    /\ UNCHANGED <<cvars, runs, dvars, summaryCap, upfile, ruleStore, ruleSnap, idx, runAcc, exportOut>>

\* await BlockRule.find({ active: true }) returns or throws
LoadRules ==
    /\ pc = "rules"
    /\ \/ /\ ruleSnap' = ActiveRules(ruleStore)
          /\ pc' = "loop"
          /\ err' = err
       \/ /\ err' = ErrDb
          /\ pc' = "catch"
          /\ ruleSnap' = ruleSnap
    /\ UNCHANGED <<cvars, runs, dvars, summaryCap, upfile, ruleStore, analysis, runPackets, runHeader,
                   idx, runAcc, emitted, exportOut>>

\* one iteration of the loop: the progress notification, then the packet
ProcessPacket ==
    /\ pc = "loop"
    /\ idx < Len(runPackets)
    /\ emitted' = IF ProgressDue(idx, Len(runPackets))
                  THEN Append(emitted,
                              Note("processing", ProgressOf(idx, Len(runPackets))))
                  ELSE emitted
    /\ runAcc' = ProcessOne(runAcc, runPackets, idx, RunRules)
    /\ idx' = idx + 1
    /\ UNCHANGED <<cvars, runs, dvars, summaryCap, upfile, ruleStore, analysis, pc, runPackets, runHeader,
                   ruleSnap, err, exportOut>>

\* after the loop: the 95% notification, then the save is awaited
FinishLoop ==
    /\ pc = "loop"
    /\ idx = Len(runPackets)
    /\ emitted' = Append(emitted, Note("processing", 95))
    /\ pc' = "save"
    /\ UNCHANGED <<cvars, runs, dvars, summaryCap, upfile, ruleStore, analysis, runPackets, runHeader,
                   ruleSnap, idx, runAcc, err, exportOut>>

\* SaveResults with the completion notification throwing after the save
SaveResults_thenThrows ==
    /\ pc = "save"
    /\ LET patch == CompletedPatch(runHeader, Len(runPackets), runAcc) IN
       analysis' = [status |-> patch.status, error |-> analysis.error,
                    result |-> patch]
    /\ err' = "emit failed"
    /\ pc' = "catch"
    /\ UNCHANGED <<cvars, runs, dvars, summaryCap, upfile, ruleStore, runPackets, runHeader, ruleSnap,
                   idx, runAcc, emitted, exportOut>>

\* await Analysis.findByIdAndUpdate(completed patch) returns or throws
SaveResults ==
    /\ pc = "save"
    /\ \/ /\ LET patch == CompletedPatch(runHeader, Len(runPackets), runAcc) IN
             analysis' = [status |-> patch.status, error |-> analysis.error,
                          result |-> patch]
          /\ emitted' = Append(emitted, Note("completed", 100))
          /\ pc' = "resolved"
          /\ err' = err
       \/ /\ err' = ErrDb
          /\ pc' = "catch"
          /\ UNCHANGED <<analysis, emitted>>
    /\ UNCHANGED <<cvars, runs, dvars, summaryCap, upfile, ruleStore, runPackets, runHeader, ruleSnap,
                   idx, runAcc, exportOut>>

\* the catch block: await Analysis.findByIdAndUpdate(failed) returns, and
\* the failed notification follows; or it throws and runAnalysis rejects
SaveFailure ==
    /\ pc = "catch"
    /\ \/ /\ analysis' = [analysis EXCEPT !.status = "failed", !.error = err]
          /\ emitted' = Append(emitted, Note("failed", 0))
          /\ pc' = "resolved"
       \/ /\ pc' = "rejected"
          /\ UNCHANGED <<analysis, emitted>>
    /\ UNCHANGED <<cvars, runs, dvars, summaryCap, upfile, ruleStore, runPackets, runHeader, ruleSnap,
                   idx, runAcc, err, exportOut>>

-----------------------------------------------------------------------------
(* GET /api/analysis/:id/export                                            *)

\* the whole handler, once the document exists: the active rules are read,
\* the upload is decoded afresh and filtered, the kept records written out;
\* a decode error is answered with a 500
Export ==
    /\ analysis # NoAnalysis
    /\ LET parsed == parsePcapFile(upfile) IN
       exportOut' =
           IF parsed.ok
           THEN [code |-> 200,
                 body |-> writePcapFile(FilterPackets(parsed.packets, 0,
                                                      ActiveRules(ruleStore)))]
           ELSE [code |-> 500, body |-> <<>>]
    /\ UNCHANGED <<cvars, runs, dvars, summaryCap, upfile, ruleStore, runvars>>

-----------------------------------------------------------------------------
(* The pipeline and the export, on one upload and one rule store           *)

Init ==
    /\ CodecIdle
    /\ upfile \in Uploads
    /\ ruleStore \in InitialStores
    /\ summaryCap = SUMMARY_CAP
    /\ RunIdle
    /\ DpiIdle

Next ==
    \/ Upload
    \/ LoadRules
    \/ ProcessPacket
    \/ FinishLoop
    \/ SaveResults
    \/ SaveFailure
    \/ Export

Spec == Init /\ [][Next]_vars

-----------------------------------------------------------------------------
(* The pipeline while the rule routes are served                           *)

RulesInit ==
    /\ CodecIdle
    /\ upfile \in FlowUploads
    /\ ruleStore = {}
    /\ summaryCap = SUMMARY_CAP
    /\ RunIdle
    /\ DpiIdle

RulesNext ==
    \/ CreateRule
    \/ UpdateRule
    \/ DeleteRule
    \/ Upload
    \/ LoadRules
    \/ ProcessPacket
    \/ FinishLoop
    \/ SaveResults
    \/ SaveFailure

SpecRules == RulesInit /\ [][RulesNext]_vars

-----------------------------------------------------------------------------
(* The pipeline on captures longer than the summary bound                  *)

\* the summary bound of the long-capture runs, standing for SUMMARY_CAP
SmallCap == 2

\* most records an upload holds beyond the bound
CapTail == 3

\* a ClientHello from 10.0.0.5 over TCP, a DNS query between two other
\* hosts over UDP, and a frame parsePacket rejects
CapCatalogue == {FrameHello, FrameDns, FrameArp}

CapUploads ==
    {Capture(fs) : fs \in [1..(SmallCap + CapTail) -> CapCatalogue]}

\* no rule, or one active rule on the address 10.0.0.5
CapStores == {{}, {Rule(TYPE_IP, <<49, 48, 46, 48, 46, 48, 46, 53>>, TRUE)}}

CapInit ==
    /\ CodecIdle
    /\ upfile \in CapUploads
    /\ ruleStore \in CapStores
    /\ summaryCap = SmallCap
    /\ RunIdle
    /\ DpiIdle

CapNext ==
    \/ Upload
    \/ LoadRules
    \/ ProcessPacket
    \/ FinishLoop
    \/ SaveResults
    \/ SaveFailure

SpecCap == CapInit /\ [][CapNext]_vars

-----------------------------------------------------------------------------
(* The pipeline on captures of several packets of one flow                 *)

\* records in an upload of the flow runs
FlowLen == 3

\* three segments of the flow 10.0.0.5:40000 -> 10.0.0.9:443 (a ClientHello
\* for zoom.us, one for x.io, application data without a name), a DNS query
\* of another flow and a frame parsePacket rejects
FlowCatalogue == {FrameHello, FrameHelloB, FrameData, FrameDns, FrameArp}

FlowRunUploads == {Capture(fs) : fs \in [1..FlowLen -> FlowCatalogue]}

\* no rule, one of the three rules, or all three
FlowStores ==
    {{}} \cup {{Rule(in[1], in[2], TRUE)} : in \in RuleInputs}
         \cup {{Rule(in[1], in[2], TRUE) : in \in RuleInputs}}

FlowInit ==
    /\ CodecIdle
    /\ upfile \in FlowRunUploads
    /\ ruleStore \in FlowStores
    /\ summaryCap = SUMMARY_CAP
    /\ RunIdle
    /\ DpiIdle

FlowNext ==
    \/ Upload
    \/ LoadRules
    \/ ProcessPacket
    \/ FinishLoop
    \/ SaveResults
    \/ SaveFailure

SpecFlows == FlowInit /\ [][FlowNext]_vars

-----------------------------------------------------------------------------
(* Runs of runAnalysis in flight together: each upload calls runAnalysis   *)
(* without awaiting it, and a run gives way to the others at its awaits    *)

\* the captures uploaded while another run is in flight
TwoUploads ==
    {Capture(<<FrameHello, FrameData>>), Capture(<<FrameDns, FrameArp>>),
     BadCapture}

\* the accumulators a call starts its loop with: declared inside the call
FreshLocals_moduleLevel(rs, id) ==
    LET looped == {q \in AnalysisIds \ {id} : rs[q].acc # EmptyAcc}
    IN  IF looped = {} THEN EmptyAcc ELSE rs[CHOOSE q \in looped : TRUE].acc

FreshLocals(rs, id) == EmptyAcc

\* the loop from i = from to the last packet: it holds no await
RECURSIVE LoopOver(_, _, _, _)
LoopOver(acc, pkts, from, rules) ==
    IF from >= Len(pkts) THEN acc
    ELSE LoopOver(ProcessOne(acc, pkts, from, rules), pkts, from + 1, rules)

\* the progress notifications of the iterations from i = from on
RECURSIVE LoopNotes(_, _)
LoopNotes(from, totalPackets) ==
    IF from >= totalPackets THEN <<>>
    ELSE (IF ProgressDue(from, totalPackets)
          THEN <<Note("processing", ProgressOf(from, totalPackets))>>
          ELSE <<>>) \o LoopNotes(from + 1, totalPackets)

\* Analysis.findByIdAndUpdate(analysisId, patch): the document of that id
UpdateById(rs, id, patch) ==
    [rs[id].doc EXCEPT !.status = patch.status,
                       !.error = IF patch.status = "failed" THEN patch.error
                                 ELSE @,
                       !.result = IF patch.status = "completed" THEN patch
                                  ELSE @]

\* POST /upload: the document is saved as 'processing' and runAnalysis is
\* called; it runs up to its first await
UploadRun ==
    /\ \E id \in AnalysisIds, file \in TwoUploads :
        /\ runs[id].pc = "idle"
        /\ LET parsed == parsePcapFile(file)
               started == [runs[id] EXCEPT
                             !.file = file,
                             !.doc = [status |-> "processing", error |-> "",
                                      result |-> <<>>],
                             !.emitted = <<Note("processing", 0),
                                           Note("processing", 5)>>]
           IN  runs' = [runs EXCEPT ![id] =
                   IF parsed.ok
                   THEN [started EXCEPT !.packets = parsed.packets,
                                        !.globalHeader = parsed.globalHeader,
                                        !.pc = "rules"]
                   ELSE [started EXCEPT !.err = parsed.error, !.pc = "catch"]]
    /\ UNCHANGED <<cvars, dvars, summaryCap, upfile, ruleStore, runvars, exportOut>>

\* await BlockRule.find returns to one run: the locals are declared, the
\* whole loop runs, the 95% notification is sent and the save is called;
\* or the find throws
RulesReturn ==
    /\ \E id \in AnalysisIds :
        /\ runs[id].pc = "rules"
        /\ \/ LET rules == ActiveRules(ruleStore)
                  total == Len(runs[id].packets)
              IN  runs' = [runs EXCEPT ![id] =
                      [@ EXCEPT !.rules = rules,
                                !.acc = LoopOver(FreshLocals(runs, id),
                                                 runs[id].packets, 0, rules),
                                !.emitted = @ \o LoopNotes(0, total)
                                              \o <<Note("processing", 95)>>,
                                !.pc = "save"]]
           \/ runs' = [runs EXCEPT ![id] = [@ EXCEPT !.err = ErrDb,
                                                     !.pc = "catch"]]
    /\ UNCHANGED <<cvars, dvars, summaryCap, upfile, ruleStore, runvars, exportOut>>

\* await Analysis.findByIdAndUpdate(completed patch) returns to one run,
\* or throws
SaveReturn ==
    /\ \E id \in AnalysisIds :
        /\ runs[id].pc = "save"
        /\ \/ LET patch == CompletedPatch(runs[id].globalHeader,
                                          Len(runs[id].packets), runs[id].acc)
              IN  runs' = [runs EXCEPT ![id] =
                      [@ EXCEPT !.doc = UpdateById(runs, id, patch),
                                !.emitted = Append(@, Note("completed", 100)),
                                !.pc = "resolved"]]
           \/ runs' = [runs EXCEPT ![id] = [@ EXCEPT !.err = ErrDb,
                                                     !.pc = "catch"]]
    /\ UNCHANGED <<cvars, dvars, summaryCap, upfile, ruleStore, runvars, exportOut>>

\* the catch block of one run: the failed patch is written and the failed
\* notification sent, or the write throws and the call rejects
FailureReturn ==
    /\ \E id \in AnalysisIds :
        /\ runs[id].pc = "catch"
        /\ \/ runs' = [runs EXCEPT ![id] =
                  [@ EXCEPT !.doc = UpdateById(runs, id,
                                        [status |-> "failed",
                                         error |-> runs[id].err]),
                            !.emitted = Append(@, Note("failed", 0)),
                            !.pc = "resolved"]]
           \/ runs' = [runs EXCEPT ![id] = [@ EXCEPT !.pc = "rejected"]]
    /\ UNCHANGED <<cvars, dvars, summaryCap, upfile, ruleStore, runvars, exportOut>>

TwoInit ==
    /\ CodecIdle
    /\ upfile = <<>>
    /\ ruleStore = {}
    /\ summaryCap = SUMMARY_CAP
    /\ RunIdle
    /\ DpiIdle

TwoNext ==
    \/ UploadRun
    \/ RulesReturn
    \/ SaveReturn
    \/ FailureReturn
    \/ CreateRule
    \/ DeleteRule

SpecTwo == TwoInit /\ [][TwoNext]_vars

-----------------------------------------------------------------------------
(* Claims about the codec, checked under SpecCodec                         *)

\* whether the file starts with one of the two legal magic numbers
HasValidHeader(buf) ==
    /\ Len(buf) >= GLOBAL_HEADER_LEN
    /\ readUInt32LE(buf, 0) \in {PCAP_MAGIC_NATIVE, PCAP_MAGIC_SWAPPED}

IsSwapped(buf) == readUInt32LE(buf, 0) = PCAP_MAGIC_SWAPPED

\* offset of the record that follows the first k records of pkts
RECURSIVE OffsetAfter(_, _)
OffsetAfter(pkts, k) ==
    IF k = 0 THEN GLOBAL_HEADER_LEN
    ELSE OffsetAfter(pkts, k - 1) + PACKET_HEADER_LEN + Len(pkts[k].data)

\* the record starting at `off` is whole: a complete 16-byte header, a
\* captured length within the snapshot length and 65535, and all its bytes
RecordIsWhole(buf, off) ==
    /\ off + PACKET_HEADER_LEN <= Len(buf)
    /\ LET incl == read32(buf, off + 8, IsSwapped(buf))
           snap == read32(buf, 16, IsSwapped(buf))
       IN  /\ ~Gt32(incl, snap)
           /\ incl.hi = 0
           /\ off + PACKET_HEADER_LEN + incl.lo <= Len(buf)

\* pkts[k] is exactly the record found at its offset in buf
RecordMatches(buf, pkts, k) ==
    LET off == OffsetAfter(pkts, k - 1) IN
    /\ RecordIsWhole(buf, off)
    /\ read32(buf, off + 8, IsSwapped(buf)) = U32Of(Len(pkts[k].data))
    /\ pkts[k].data = Slice(buf, off + PACKET_HEADER_LEN,
                            off + PACKET_HEADER_LEN + Len(pkts[k].data))
    /\ pkts[k].header.tsSec = read32(buf, off, IsSwapped(buf))

\* pkts is the longest prefix of whole records of buf
IsLongestWholePrefix(buf, pkts) ==
    /\ \A k \in 1..Len(pkts) : RecordMatches(buf, pkts, k)
    /\ ~RecordIsWhole(buf, OffsetAfter(pkts, Len(pkts)))

\* C3: decode, encode, decode of a valid container gives the same number of
\* records with the same payload bytes in the same order.
C3_RoundTrip ==
    (cphase = "redecoded") =>
        /\ credecoded.ok
        /\ Len(credecoded.packets) = Len(cdecoded.packets)
        /\ \A i \in 1..Len(cdecoded.packets) :
               credecoded.packets[i].data = cdecoded.packets[i].data

\* a byte-swapped container with two records, one non-empty, one whose
\* original length differs from its captured length, has gone round
C3_Witness ==
    /\ cphase = "redecoded"
    /\ IsSwapped(cfile)
    /\ Len(cdecoded.packets) = 2
    /\ \E i \in 1..2 : Len(cdecoded.packets[i].data) = 3
    /\ \E i \in 1..2 : cdecoded.packets[i].header.origLen
                           # cdecoded.packets[i].header.inclLen

\* C10: with a valid global header the decoder does not raise, and returns
\* exactly the longest prefix of whole records; a record that is cut short,
\* longer than the snapshot length or longer than 65535 ends the sequence.
C10_TruncationIsEnd ==
    (cphase # "start" /\ HasValidHeader(cfile)) =>
        /\ cdecoded.ok
        /\ IsLongestWholePrefix(cfile, cdecoded.packets)

\* a record was kept and the bytes after it were dropped
C10_Witness ==
    /\ cphase = "decoded"
    /\ HasValidHeader(cfile)
    /\ cdecoded.ok
    /\ Len(cdecoded.packets) >= 1
    /\ OffsetAfter(cdecoded.packets, Len(cdecoded.packets)) < Len(cfile)


-----------------------------------------------------------------------------
(* Claims about the filtered export                                        *)

\* parsePacket on record i (0-based) of the run's decoded upload
ParsedAt(i) == parsePacket(runPackets[i + 1].data, i, runPackets[i + 1].header)

\* record i is of a flow the run's flow table holds as blocked
InBlockedFlow(i) ==
    LET parsed == ParsedAt(i) IN
    /\ parsed.ok
    /\ \E k \in 1..Len(runAcc.flows) :
          runAcc.flows[k].fiveTuple = parsed.fiveTuple /\ runAcc.flows[k].blocked

\* the records of runPackets from i on that are of no blocked flow
RECURSIVE OutsideBlockedFlows(_)
OutsideBlockedFlows(i) ==
    IF i >= Len(runPackets) THEN <<>>
    ELSE (IF InBlockedFlow(i) THEN <<>> ELSE <<runPackets[i + 1]>>)
             \o OutsideBlockedFlows(i + 1)

\* the run has stored its results and the export has answered with a file
RunCompleted == pc = "resolved" /\ analysis.status = "completed"

ExportedFile == exportOut.code = 200

\* the export, decoded again
Reexported == parsePcapFile(exportOut.body)

\* two record sequences agree on order, timestamps and payload bytes
SameRecords(a, b) ==
    /\ Len(a) = Len(b)
    /\ \A k \in 1..Len(a) :
          /\ a[k].data = b[k].data
          /\ a[k].header.tsSec = b[k].header.tsSec

\* C1: once a run has completed and the export has been produced under the
\* same rule store, the export re-decodes to exactly the records of the
\* upload that belong to no flow the run marked blocked, in file order and
\* with byte-identical payloads.
C1_ExportDropsBlockedFlows ==
    (RunCompleted /\ ExportedFile) =>
        /\ Reexported.ok
        /\ SameRecords(Reexported.packets, OutsideBlockedFlows(0))

\* record i of the upload is present in the re-decoded export
InExport(i) ==
    \E k \in 1..Len(Reexported.packets) :
        /\ Reexported.packets[k].header.tsSec = runPackets[i + 1].header.tsSec
        /\ Reexported.packets[k].data = runPackets[i + 1].data

\* C2: with the same active rules at analysis time and at export time,
\* every packet the run marked blocked is absent from the exported file.
C2_ExportAgreesWithAnalysis ==
    (RunCompleted /\ ExportedFile /\ ruleSnap = ActiveRules(ruleStore)) =>
        \A k \in 1..Len(runAcc.packetSummaries) :
            LET s == runAcc.packetSummaries[k] IN
            s.blocked => ~InExport(s.index)

-----------------------------------------------------------------------------
(* Claims about the flow table                                             *)

\* the flow table keeps flow k and, if it has a name, the name
KeepsName(k) ==
    /\ k <= Len(runAcc'.flows)
    /\ Truthy(runAcc.flows[k].sni) => runAcc'.flows[k].sni = runAcc.flows[k].sni

\* C4 as stated: a flow's non-empty name and its non-empty application label
\* are never overwritten by a later packet of the flow.
C4_AsStated ==
    [][\A k \in 1..Len(runAcc.flows) :
          /\ KeepsName(k)
          /\ Truthy(runAcc.flows[k].appType)
                => runAcc'.flows[k].appType = runAcc.flows[k].appType]_vars

\* C4: once a flow has a non-empty name, no later packet of the flow, with a
\* name or without, overwrites the name or the application label adopted
\* with it.
C4_NamedFlowIsFrozen ==
    [][\A k \in 1..Len(runAcc.flows) :
          /\ KeepsName(k)
          /\ Truthy(runAcc.flows[k].sni)
                => runAcc'.flows[k].appType = runAcc.flows[k].appType]_vars

\* the DPI result of record i (0-based) of the run
DpiAt(i) == inspect(runPackets[i + 1].data, ParsedAt(i))

\* the flow table's entry for record i, which parsed
FlowAt(i) ==
    runAcc.flows[CHOOSE k \in 1..Len(runAcc.flows) :
                     runAcc.flows[k].fiveTuple = ParsedAt(i).fiveTuple]

\* a named flow has taken a later packet that carries another name
C4_Witness ==
    /\ pc = "loop"
    /\ idx = 2
    /\ ParsedAt(0).ok /\ ParsedAt(1).ok
    /\ ParsedAt(0).fiveTuple = ParsedAt(1).fiveTuple
    /\ Truthy(DpiAt(0).sni) /\ Truthy(DpiAt(1).sni)
    /\ DpiAt(0).sni # DpiAt(1).sni
    /\ FlowAt(1).sni = DpiAt(0).sni
    /\ FlowAt(1).packets = 2

-----------------------------------------------------------------------------
(* Claims about verdicts                                                   *)

\* an `ip` rule of the snapshot names an endpoint of the summarised packet
IpRuleHits(s) ==
    \E r \in ruleSnap :
        r.type = TYPE_IP /\ (s.srcIp = r.value \/ s.destIp = r.value)

OnlyIpRules == \A r \in ruleSnap : r.type = TYPE_IP

RECURSIVE BlockedAmong(_, _)
BlockedAmong(summaries, n) ==
    IF n = 0 THEN 0
    ELSE BlockedAmong(summaries, n - 1) + (IF summaries[n].blocked THEN 1 ELSE 0)

\* C5: under an active `ip` rule, every parsed packet with the rule's value
\* as source or destination is marked blocked, is counted as dropped, and
\* its flow is blocked in every state from then on; under `ip` rules alone a
\* packet with neither endpoint named by a rule is not blocked.
C5_IpRule ==
    /\ \A k \in 1..Len(runAcc.packetSummaries) :
          LET s == runAcc.packetSummaries[k] IN
          /\ IpRuleHits(s) => (s.blocked /\ FlowAt(s.index).blocked)
          /\ (OnlyIpRules /\ ~IpRuleHits(s)) => ~s.blocked
    /\ runAcc.dropped
          = BlockedAmong(runAcc.packetSummaries, Len(runAcc.packetSummaries))

\* one packet blocked for its destination alone, another forwarded
C5_Witness ==
    /\ ruleSnap # {}
    /\ OnlyIpRules
    /\ \E j, k \in 1..Len(runAcc.packetSummaries) :
          LET s == runAcc.packetSummaries[j]
              t == runAcc.packetSummaries[k] IN
          /\ s.blocked
          /\ \E r \in ruleSnap : s.destIp = r.value /\ s.srcIp # r.value
          /\ ~t.blocked

\* some packet of the flow of record i was marked blocked
SomePacketBlocked(f) ==
    \E k \in 1..Len(runAcc.packetSummaries) :
        LET s == runAcc.packetSummaries[k] IN
        s.blocked /\ ParsedAt(s.index).fiveTuple = f.fiveTuple

\* C6: a flow's blocked flag, once true, is true in every later state of the
\* run and in the stored flow table; and it is true only if a packet of the
\* flow was marked blocked.
C6_StickyBlock ==
    /\ [](/\ \A k \in 1..Len(runAcc.flows) :
                runAcc.flows[k].blocked => SomePacketBlocked(runAcc.flows[k])
          /\ RunCompleted => analysis.result.flows = runAcc.flows)
    /\ [][\A k \in 1..Len(runAcc.flows) :
             runAcc.flows[k].blocked
                => (k <= Len(runAcc'.flows) /\ runAcc'.flows[k].blocked)]_vars

\* a blocked flow has taken a later packet that was itself forwarded, and
\* the run has stored the flow as blocked
C6_Witness ==
    /\ RunCompleted
    /\ \E j, k \in 1..Len(runAcc.packetSummaries) :
          LET s == runAcc.packetSummaries[j]
              t == runAcc.packetSummaries[k] IN
          /\ j < k
          /\ ParsedAt(s.index).fiveTuple = ParsedAt(t.index).fiveTuple
          /\ s.blocked /\ ~t.blocked
          /\ FlowAt(t.index).blocked
          /\ \E f \in 1..Len(analysis.result.flows) :
                analysis.result.flows[f].blocked

-----------------------------------------------------------------------------
(* Claims about the run's status and its failures                          *)

\* C7 as stated: pending, then processing, then completed or failed; no
\* document is created in a later state than pending.
C7_AsStated ==
    [][\/ analysis'.status = analysis.status
       \/ analysis.status = "none" /\ analysis'.status = "pending"
       \/ analysis.status = "pending" /\ analysis'.status = "processing"
       \/ analysis.status = "processing"
             /\ analysis'.status \in {"completed", "failed"}]_vars

\* C7: the document is created as processing, and its stored status only
\* moves from processing to completed or from processing to failed; a
\* completed document is never written failed, nor a failed one completed.
C7_StatusMachine ==
    [][\/ analysis'.status = analysis.status
       \/ analysis.status = "none" /\ analysis'.status = "processing"
       \/ analysis.status = "processing"
             /\ analysis'.status \in {"completed", "failed"}]_vars

\* the loop ran to its end, the save of the results failed, and the
\* document was written failed
C7_Witness ==
    /\ analysis.status = "failed"
    /\ pc = "resolved"
    /\ idx = Len(runPackets)
    /\ idx > 0
    /\ err = ErrDb

\* the run is over: its promise has resolved or rejected
RunOver == pc \in {"resolved", "rejected"}

\* C8: a run in which an exception was raised ends with the document stored
\* as failed with the exception's message, a failed notification emitted,
\* and the promise of runAnalysis resolved.
C8_FailureIsRecorded ==
    (RunOver /\ err # "") =>
        /\ pc = "resolved"
        /\ analysis.status = "failed"
        /\ analysis.error = err
        /\ emitted[Len(emitted)].status = "failed"

-----------------------------------------------------------------------------
(* Claims about the rule snapshot                                          *)

\* the accumulators after the first n records of the run under `rules`
RECURSIVE RunFold(_, _)
RunFold(n, rules) ==
    IF n = 0 THEN EmptyAcc
    ELSE ProcessOne(RunFold(n - 1, rules), runPackets, n - 1, rules)

\* C9: the run reads the active rules once, before its loop, and whatever
\* the rule routes do to the store meanwhile, the verdicts, flow flags and
\* counters of the run are those the snapshot alone gives.
C9_SnapshotIsolation ==
    /\ [](/\ runAcc = RunFold(idx, ruleSnap)
          /\ RunCompleted =>
                /\ analysis.result.flows = RunFold(idx, ruleSnap).flows
                /\ analysis.result.stats.dropped = RunFold(idx, ruleSnap).dropped
                /\ analysis.result.stats.forwarded
                      = RunFold(idx, ruleSnap).forwarded)
    /\ [][ruleSnap' # ruleSnap => (pc = "rules" /\ pc' = "loop")]_vars

\* in the middle of the loop the store no longer holds the snapshot, and
\* its rules would have given the packets so far other verdicts
C9_Witness ==
    /\ pc = "loop"
    /\ idx >= 1
    /\ idx < Len(runPackets)
    /\ ActiveRules(ruleStore) # ruleSnap
    /\ RunFold(idx, ActiveRules(ruleStore)).dropped # runAcc.dropped

-----------------------------------------------------------------------------
(* Claims about an upload that is no capture                               *)

\* the upload is shorter than a global header or starts with neither magic
InvalidFormat ==
    \/ Len(upfile) < GLOBAL_HEADER_LEN
    \/ SubSeq(upfile, 1, 4) \notin {<<212, 195, 178, 161>>, <<161, 178, 195, 212>>}

\* some notification so far carries this status
Notified(status) == \E k \in 1..Len(emitted) : emitted[k].status = status

\* C11: the decode of an upload of invalid format raises an error and yields
\* no records; the run on it never stores or announces completed, and it
\* ends with the stored status failed.
C11_InvalidFormatIsFatal ==
    InvalidFormat =>
        /\ ~parsePcapFile(upfile).ok
        /\ runPackets = <<>>
        /\ analysis.status # "completed"
        /\ ~Notified("completed")
        /\ RunOver => analysis.status = "failed"

-----------------------------------------------------------------------------
(* Descriptor claims                                                       *)

\* the protocol byte and the declared end of the IP header, read off the frame
FrameProtocol == dframe[ETHERNET_LEN + 10]
FrameIpEnd == ETHERNET_LEN + 4 * (dframe[ETHERNET_LEN + 1] % 16)

\* C12: whenever parsePacket returns a descriptor, payloadOffset and
\* payloadLength are non-negative and payloadOffset + payloadLength does not
\* exceed the record's byte length; for a protocol other than TCP and UDP
\* the payloadOffset is the end of the IP header, both ports are 0 and the
\* TCP flag summary is absent.
C12_PayloadBound ==
    dparsed.ok =>
        /\ dparsed.payloadOffset >= 0
        /\ dparsed.payloadLength >= 0
        /\ dparsed.payloadOffset + dparsed.payloadLength <= Len(dframe)
        /\ FrameProtocol \notin {PROTOCOL_TCP, PROTOCOL_UDP} =>
               /\ dparsed.payloadOffset = FrameIpEnd
               /\ dparsed.srcPort = 0
               /\ dparsed.destPort = 0
               /\ dparsed.tcpFlags = Null

\* an ICMP packet with IP options and a payload is dissected
C12_Witness ==
    /\ dparsed.ok
    /\ FrameProtocol = PROTOCOL_ICMP
    /\ dparsed.payloadOffset = ETHERNET_LEN + 24
    /\ dparsed.payloadLength > 0

\* the flag byte of a TCP frame, read off the frame
FrameFlags == dframe[FrameIpEnd + 14]

\* the six flag names in the order of the summary, each with its bit number
\* in the TCP header (RFC 793): SYN 1, ACK 4, FIN 0, RST 2, PSH 3, URG 5
SummaryOrder ==
    <<[name |-> <<83, 89, 78>>, bit |-> 1], [name |-> <<65, 67, 75>>, bit |-> 4],
      [name |-> <<70, 73, 78>>, bit |-> 0], [name |-> <<82, 83, 84>>, bit |-> 2],
      [name |-> <<80, 83, 72>>, bit |-> 3], [name |-> <<85, 82, 71>>, bit |-> 5]>>

BitIsSet(e) == (FrameFlags \div (2 ^ e.bit)) % 2 = 1

\* the names of the flags set in the frame, in summary order
SetFlagNames ==
    LET set == SelectSeq(SummaryOrder, BitIsSet)
    IN  [i \in 1..Len(set) |-> set[i].name]

TcpDissected == dparsed.ok /\ FrameProtocol = PROTOCOL_TCP

\* C13 as stated: for every flag byte the summary is the space-joined list
\* of exactly the set flags among SYN, ACK, FIN, RST, PSH, URG, in that
\* order (the empty list when none of them is set).
C13_AsStated ==
    TcpDissected => dparsed.tcpFlags = JoinWith(SetFlagNames, Space)

\* C13: for every flag byte with at least one of the six flags set, the
\* summary is the space-joined list of exactly the set flags among SYN, ACK,
\* FIN, RST, PSH, URG, each once, in that order; for a flag byte with none
\* of the six set the summary is the word "none".
C13_FlagSummary ==
    TcpDissected =>
        dparsed.tcpFlags =
            IF SetFlagNames = <<>> THEN <<110, 111, 110, 101>>
            ELSE JoinWith(SetFlagNames, Space)

\* a segment with every bit of the flag byte set has been dissected
C13_Witness ==
    /\ TcpDissected
    /\ FrameFlags = 255
    /\ dparsed.tcpFlags =
           <<83, 89, 78, 32, 65, 67, 75, 32, 70, 73, 78, 32,
             82, 83, 84, 32, 80, 83, 72, 32, 85, 82, 71>>

-----------------------------------------------------------------------------
(* Inspection claims                                                       *)

Inspected == dphase = "inspected"

\* C14: for every descriptor with payload length 0, inspect returns no name
\* (neither an SNI nor a DNS query) and the label is HTTPS if the destination
\* port is 443, else HTTP if it is 80, else DNS if the source or the
\* destination port is 53, else Unknown.
C14_ZeroPayload ==
    (Inspected /\ dparsed.payloadLength = 0) =>
        /\ ddpi.sni = Null
        /\ ddpi.dnsQuery = Null
        /\ ddpi.appType =
               CASE dparsed.destPort = 443 -> APP_HTTPS
                 [] dparsed.destPort # 443 /\ dparsed.destPort = 80 -> APP_HTTP
                 [] dparsed.destPort \notin {443, 80}
                        /\ 53 \in {dparsed.srcPort, dparsed.destPort} -> APP_DNS
                 [] OTHER -> APP_UNKNOWN

\* a TCP SYN to port 443 without payload was labelled HTTPS, without a name
C14_Witness ==
    /\ Inspected
    /\ dparsed.protocol = PROTOCOL_TCP
    /\ dparsed.tcpFlags = <<83, 89, 78>>
    /\ dparsed.destPort = 443
    /\ dparsed.payloadLength = 0
    /\ ddpi = [sni |-> Null, appType |-> APP_HTTPS, dnsQuery |-> Null]

\* no pattern of the classification table occurs in the lower-cased name
Unrecognized(name) ==
    \A i \in 1..Len(DOMAIN_PATTERNS) :
        ~includes(toLowerCase(name), DOMAIN_PATTERNS[i][1])

\* the SNI inspect extracts from the frame: TCP to port 443, payload > 5
SniOfFrame ==
    IF dparsed.protocol = PROTOCOL_TCP /\ dparsed.destPort = 443
           /\ dparsed.payloadLength > 5
    THEN extractSNI(dframe, dparsed.payloadOffset, dparsed.payloadLength)
    ELSE Null

\* the Host inspect extracts from the frame: TCP to port 80, payload > 10
HostOfFrame ==
    IF dparsed.protocol = PROTOCOL_TCP /\ dparsed.destPort = 80
           /\ dparsed.payloadLength > 10
    THEN extractHTTPHost(dframe, dparsed.payloadOffset, dparsed.payloadLength)
    ELSE Null

\* C15: whenever inspect extracts a non-empty SNI (TCP, destination port
\* 443) or a non-empty HTTP Host (TCP, destination port 80) that matches no
\* entry of the classification table, the label is HTTPS for the SNI and
\* HTTP for the Host, never Unknown, and the extracted name is returned.
C15_UnrecognizedName ==
    Inspected =>
        /\ (Truthy(SniOfFrame) /\ Unrecognized(SniOfFrame)) =>
               /\ ddpi.sni = SniOfFrame
               /\ ddpi.appType = APP_HTTPS
        /\ (Truthy(HostOfFrame) /\ Unrecognized(HostOfFrame)) =>
               /\ ddpi.sni = HostOfFrame
               /\ ddpi.appType = APP_HTTP
        /\ (Truthy(SniOfFrame) \/ Truthy(HostOfFrame)) =>
               ddpi.appType # APP_UNKNOWN

\* a ClientHello naming x.io was labelled HTTPS and its name returned
C15_Witness ==
    /\ Inspected
    /\ SniOfFrame = NameOther
    /\ Unrecognized(NameOther)
    /\ ddpi.sni = NameOther
    /\ ddpi.appType = APP_HTTPS

\* every generated DNS message with what it was built from
DnsCases ==
    {[frame  |-> UdpFrame(IpC, ports[1], IpB, ports[2],
                          DnsMessage(flags, qd, name)),
      query  |-> flags < 128 /\ qd >= 1,
      labels |-> name] :
         ports \in {<<5353, PORT_DNS>>, <<PORT_DNS, 5353>>},
         flags \in {1, 129}, qd \in {0, 1}, name \in DnsNames}

\* "api.service.com"
NameApiServiceCom ==
    <<97, 112, 105, 46, 115, 101, 114, 118, 105, 99, 101, 46, 99, 111, 109>>

\* C16: every UDP packet with source or destination port 53 and a non-empty
\* payload is labelled DNS, whatever its name would classify as; a query (QR
\* clear, question count >= 1) whose name is a sequence of length-prefixed
\* labels reports those labels joined with '.', and a response (QR set) or a
\* message with question count 0 reports no name.
C16_DnsLabelling ==
    Inspected =>
        /\ (/\ dparsed.protocol = PROTOCOL_UDP
            /\ 53 \in {dparsed.srcPort, dparsed.destPort}
            /\ dparsed.payloadLength > 0) => ddpi.appType = APP_DNS
        /\ \A c \in DnsCases :
               c.frame = dframe =>
                   /\ (c.query /\ c.labels # <<>>) =>
                          /\ ddpi.dnsQuery = JoinWith(c.labels, Dot)
                          /\ ddpi.sni = ddpi.dnsQuery
                   /\ (c.query /\ c.labels = <<>>) => ~Truthy(ddpi.dnsQuery)
                   /\ ~c.query =>
                          /\ ddpi.dnsQuery = Null
                          /\ ddpi.sni = Null

\* a query for api.service.com was labelled DNS and its name reported
C16_Witness ==
    /\ Inspected
    /\ dparsed.protocol = PROTOCOL_UDP
    /\ dparsed.destPort = 53
    /\ ddpi = [sni |-> NameApiServiceCom, appType |-> APP_DNS,
               dnsQuery |-> NameApiServiceCom]

-----------------------------------------------------------------------------
(* TLS walk claims                                                         *)

\* extractSNI applied to the payload region of the dissected frame
SniResult == extractSNI(dframe, dparsed.payloadOffset, dparsed.payloadLength)

PayloadEnd == dparsed.payloadOffset + dparsed.payloadLength

\* byte and 16-bit big-endian field of the frame at 0-based position i
FrameByte(i) == IF i < Len(dframe) THEN dframe[i + 1] ELSE 0
FrameWord(i) == 256 * FrameByte(i) + FrameByte(i + 1)

\* the positions of the length fields of a ClientHello, each following from
\* the fields before it
SessionAt == dparsed.payloadOffset + 43
CiphersAt == SessionAt + 1 + FrameByte(SessionAt)
CompressionAt == CiphersAt + 2 + FrameWord(CiphersAt)
ExtensionsAt == CompressionAt + 1 + FrameByte(CompressionAt)

\* the declared record runs past the payload
RecordOverrun == 5 + FrameWord(dparsed.payloadOffset + 3) > dparsed.payloadLength

\* the session id, the cipher suites or the compression methods run past it
PreambleOverrun ==
    \/ CiphersAt > PayloadEnd
    \/ CompressionAt > PayloadEnd
    \/ ExtensionsAt > PayloadEnd

\* the declared extensions block runs past the payload
BlockOverrun ==
    /\ ~PreambleOverrun
    /\ ExtensionsAt + 2 + FrameWord(ExtensionsAt) > PayloadEnd

\* from the extension header at x on: an extension up to and including
\* server_name, or the name inside server_name, runs past the payload
RECURSIVE ExtensionOverrun(_)
ExtensionOverrun(x) ==
    IF x + 4 > PayloadEnd THEN FALSE
    ELSE IF x + 4 + FrameWord(x + 2) > PayloadEnd THEN TRUE
    ELSE IF FrameWord(x) = TLS_EXTENSION_SNI
    THEN FrameWord(x + 2) >= 5 /\ x + 9 + FrameWord(x + 7) > PayloadEnd
    ELSE ExtensionOverrun(x + 4 + FrameWord(x + 2))

InnerOverrun ==
    \/ RecordOverrun
    \/ PreambleOverrun
    \/ ~PreambleOverrun /\ ExtensionOverrun(ExtensionsAt + 2)

\* the result is null or text cut out of the payload region
InsidePayload(r) ==
    r # Null =>
        \E k \in dparsed.payloadOffset..(PayloadEnd - Len(r)) :
            \A i \in 1..Len(r) : r[i] = dframe[k + i] % 128

\* inspect returned a result: a label and a name that is null or text
ReturnedNormally ==
    /\ ddpi.appType \in {APP_UNKNOWN, APP_HTTP, APP_HTTPS, APP_DNS}
                            \cup {DOMAIN_PATTERNS[i][2] : i \in 1..Len(DOMAIN_PATTERNS)}
    /\ ddpi.sni = Null \/ \A i \in 1..Len(ddpi.sni) : ddpi.sni[i] \in 0..127

\* C17 as stated: for every descriptor parsePacket produces, extractSNI and
\* inspect return normally, extractSNI returns null or a string of bytes
\* lying inside the payload region, and any length field that would carry
\* the walk past the end of the payload makes the result null.
C17_AsStated ==
    /\ dparsed.ok =>
           /\ InsidePayload(SniResult)
           /\ (InnerOverrun \/ BlockOverrun) => SniResult = Null
    /\ Inspected => ReturnedNormally

\* C17: for every descriptor parsePacket produces, extractSNI and inspect
\* return normally, extractSNI returns null or a string of bytes lying
\* inside the payload region, and a record, session-id, cipher-suite,
\* compression, extension or name length that would carry the walk past the
\* end of the payload makes the result null; an extensions-block length
\* that runs past the end is cut to the end of the payload instead, and the
\* name is still returned when its extension lies inside the payload.
C17_MalformedTls ==
    /\ dparsed.ok =>
           /\ InsidePayload(SniResult)
           /\ InnerOverrun => SniResult = Null
           /\ (BlockOverrun /\ SniResult # Null) =>
                  ~ExtensionOverrun(ExtensionsAt + 2)
    /\ Inspected => ReturnedNormally

\* a ClientHello whose session-id length runs past the payload gave no name,
\* and inspect fell back to the port label
C17_Witness ==
    /\ Inspected
    /\ dparsed.destPort = 443
    /\ ~RecordOverrun
    /\ CiphersAt > PayloadEnd
    /\ SniResult = Null
    /\ ddpi = [sni |-> Null, appType |-> APP_HTTPS, dnsQuery |-> Null]

-----------------------------------------------------------------------------
(* Claims about the summary cap, checked under SpecCap                     *)

FrameAt(i) == runPackets[i + 1].data

\* record i (0-based) of the run is dissected
Dissects(i) == parsePacket(FrameAt(i), i, runPackets[i + 1].header).ok

\* indexes of the dissected records the loop has gone through, in file order
Done == SelectSeq([j \in 1..idx |-> j - 1], Dissects)

\* the records of `done` that pass the test
DoneCount(done, Test(_)) ==
    Cardinality({k \in 1..Len(done) : Test(FrameAt(done[k]))})

RECURSIVE DoneBytes(_, _)
DoneBytes(done, k) ==
    IF k = 0 THEN 0 ELSE Len(FrameAt(done[k])) + DoneBytes(done, k - 1)

IsTcpFrame(f) == f[ETHERNET_LEN + 10] = PROTOCOL_TCP
IsUdpFrame(f) == f[ETHERNET_LEN + 10] = PROTOCOL_UDP

\* 10.0.0.5 is the source or the destination address of the frame
NamesBlockedIp(f) ==
    \/ SubSeq(f, ETHERNET_LEN + 13, ETHERNET_LEN + 16) = IpA
    \/ SubSeq(f, ETHERNET_LEN + 17, ETHERNET_LEN + 20) = IpA

RECURSIVE FlowTotal(_, _)
FlowTotal(flows, field) ==
    IF flows = <<>> THEN 0
    ELSE (IF field = "packets" THEN Head(flows).packets ELSE Head(flows).bytes)
             + FlowTotal(Tail(flows), field)

RECURSIVE HistogramTotal(_, _)
HistogramTotal(counts, keys) ==
    IF keys = {} THEN 0
    ELSE LET k == CHOOSE x \in keys : TRUE
         IN  counts[k] + HistogramTotal(counts, keys \ {k})

\* C18: in every state of a run the summary list has at most as many
\* entries as the bound and holds exactly the first min(parsed, bound)
\* dissected packets in strictly increasing file index, and every dissected
\* packet, those beyond the bound too, is counted in the parsed, byte and
\* protocol counters, in its flow's packet and byte counts, in both
\* histograms and in forwarded or dropped.  The bound is 5000 in the
\* program and SmallCap in these runs.
C18_SummaryCap ==
    LET done      == Done
        summaries == runAcc.packetSummaries
    IN  /\ Len(summaries) <= summaryCap
        /\ Len(summaries) = Min(Len(done), summaryCap)
        /\ \A k \in 1..Len(summaries) :
               /\ summaries[k].index = done[k]
               /\ summaries[k].length = Len(FrameAt(done[k]))
        /\ \A k \in 1..(Len(summaries) - 1) :
               summaries[k].index < summaries[k + 1].index
        /\ runAcc.parsedCount = Len(done)
        /\ runAcc.totalBytes = DoneBytes(done, Len(done))
        /\ runAcc.tcpCount = DoneCount(done, IsTcpFrame)
        /\ runAcc.udpCount = DoneCount(done, IsUdpFrame)
        /\ runAcc.otherCount = Len(done) - runAcc.tcpCount - runAcc.udpCount
        /\ runAcc.dropped = IF ruleSnap = {} THEN 0
                            ELSE DoneCount(done, NamesBlockedIp)
        /\ runAcc.forwarded = Len(done) - runAcc.dropped
        /\ FlowTotal(runAcc.flows, "packets") = Len(done)
        /\ FlowTotal(runAcc.flows, "bytes") = runAcc.totalBytes
        /\ HistogramTotal(runAcc.appCounts, DOMAIN runAcc.appCounts) = Len(done)
        /\ HistogramTotal(runAcc.protocolCounts, DOMAIN runAcc.protocolCounts)
               = Len(done)
        /\ analysis.status = "completed" =>
               /\ analysis.result.packets = summaries
               /\ analysis.result.stats.parsedPackets = Len(done)

\* a completed run whose first record is not dissected and which dissects
\* two records more than the bound, one dropped and one forwarded: the list
\* is full, its last entry is record summaryCap, and both records after it
\* are counted
C18_Witness ==
    /\ analysis.status = "completed"
    /\ ~Dissects(0)
    /\ runAcc.parsedCount = summaryCap + 2
    /\ Len(analysis.result.packets) = summaryCap
    /\ analysis.result.packets[summaryCap].index = summaryCap
    /\ NamesBlockedIp(FrameAt(summaryCap + 1))
    /\ ~NamesBlockedIp(FrameAt(summaryCap + 2))
    /\ ~analysis.result.packets[summaryCap].blocked
    /\ analysis.result.stats.dropped = 1
    /\ analysis.result.stats.forwarded = summaryCap + 1

-----------------------------------------------------------------------------
(* Claims about the filtered export                                        *)

\* the records of the upload, as the export route decodes them
UploadRecords == parsePcapFile(upfile).packets

\* record i (0-based) of the upload is dissected and an active rule of the
\* store matches it with the DPI result of the packet alone
MatchesActiveRule(recs, i) ==
    LET data   == recs[i + 1].data
        parsed == parsePacket(data, i, recs[i + 1].header)
    IN  /\ parsed.ok
        /\ \E rule \in ActiveRules(ruleStore) :
               RuleMatches(rule, parsed, inspect(data, parsed))

\* record i of the upload is not dissected
Undissected(recs, i) ==
    ~parsePacket(recs[i + 1].data, i, recs[i + 1].header).ok

\* C19: the filtered export re-decodes to an order-preserving subsequence of
\* the decoded upload that holds every record whose dissection fails,
\* whatever the rules, and every dissected record no active rule matches;
\* the records a rule matches are the only ones removed.
C19_ExportRetention ==
    ExportedFile =>
        LET recs == UploadRecords
            kept == SelectSeq([j \in 1..Len(recs) |-> j - 1],
                              LAMBDA i : ~MatchesActiveRule(recs, i))
            out  == Reexported
        IN  /\ out.ok
            /\ Len(out.packets) = Len(kept)
            /\ \A k \in 1..Len(kept) : out.packets[k] = recs[kept[k] + 1]
            /\ \A i \in 0..(Len(recs) - 1) :
                   Undissected(recs, i) => \E k \in 1..Len(kept) : kept[k] = i

\* an export under a non-empty rule store of an upload whose first record
\* is removed by a rule and whose second is not dissected: the file holds
\* the second record alone
C19_Witness ==
    /\ ExportedFile
    /\ ruleStore # {}
    /\ Len(UploadRecords) = 2
    /\ MatchesActiveRule(UploadRecords, 0)
    /\ Undissected(UploadRecords, 1)
    /\ Reexported.ok
    /\ Reexported.packets = <<UploadRecords[2]>>

-----------------------------------------------------------------------------
(* Claims about the progress notifications                                 *)

\* most packets of a run for which the percentages are tabulated
MaxTotal == 40

\* the percentages of one run's loop: between 10 and 89 and non-decreasing
\* in the packet index, whichever iterations emit
LoopPercentages ==
    \A total \in 1..MaxTotal :
        \A i \in 0..(total - 1) :
            /\ ProgressOf(i, total) \in 10..89
            /\ i > 0 => ProgressOf(i - 1, total) <= ProgressOf(i, total)

InRange == \A k \in 1..Len(emitted) : emitted[k].progress \in 0..100

-----------------------------------------------------------------------------
(* Claims about the IPv4 header length                                     *)

\* the frame is Ethernet/IPv4: it has an Ethernet header with EtherType
\* 0x0800 and its first IP byte carries version 4
IsIpv4Frame ==
    /\ Len(dframe) > ETHERNET_LEN
    /\ readUInt16BE(dframe, 12) = ETHERTYPE_IPV4
    /\ dframe[ETHERNET_LEN + 1] \div 16 = 4

\* IHL x 4 of the frame
FrameIhlBytes == 4 * (dframe[ETHERNET_LEN + 1] % 16)

\* C22: parsePacket returns null for every Ethernet/IPv4 record whose
\* IHL x 4 is less than 20 or exceeds the bytes that remain after the
\* Ethernet header: every descriptor comes from a packet whose IP header
\* length is in 20..60 and fits in the record.
C22_HeaderLength ==
    (dphase # "start" /\ IsIpv4Frame) =>
        /\ FrameIhlBytes < IPV4_MIN_LEN => ~dparsed.ok
        /\ FrameIhlBytes > Len(dframe) - ETHERNET_LEN => ~dparsed.ok
        /\ dparsed.ok =>
               /\ FrameIhlBytes \in IPV4_MIN_LEN..60
               /\ ETHERNET_LEN + FrameIhlBytes <= Len(dframe)

\* the part of C22 the dissector keeps: no descriptor comes from a record
\* shorter than 34 bytes or than its declared IP header
C22_HeaderFits ==
    (dphase # "start" /\ IsIpv4Frame /\ dparsed.ok) =>
        /\ Len(dframe) >= ETHERNET_LEN + IPV4_MIN_LEN
        /\ ETHERNET_LEN + FrameIhlBytes <= Len(dframe)
        /\ dparsed.payloadOffset >= ETHERNET_LEN + FrameIhlBytes

\* a descriptor from a record whose IHL is below 5
C22_ShortIhl ==
    /\ dphase # "start"
    /\ IsIpv4Frame
    /\ FrameIhlBytes < IPV4_MIN_LEN
    /\ dparsed.ok

-----------------------------------------------------------------------------
(* Claims about the HTTP Host header                                       *)

\* the payload of the dissected frame that extractHTTPHost decodes
HttpText ==
    toAscii(dframe, dparsed.payloadOffset,
            dparsed.payloadOffset + Min(dparsed.payloadLength, HTTP_SCAN_LIMIT))

\* "host:"
HostName == <<104, 111, 115, 116, 58>>

\* a header line whose name is Host, in any case, starts at 1-based
\* position p of s
HostLineAt(s, p) ==
    /\ p > 1 /\ IsEol(s[p - 1])
    /\ p + 4 <= Len(s)
    /\ toLowerCase(SubSeq(s, p, p + 4)) = HostName

\* the value of the header line at p: up to the end of the line, trimmed
HostLineValue(s, p) == trim(SubSeq(s, p + 5, LineEnd(s, p + 4)))

IsDigit(c) == c \in 48..57

\* the value without a trailing ":port"
WithoutPort(v) ==
    LET at == {i \in 1..Len(v) :
                  /\ v[i] = 58
                  /\ i < Len(v)
                  /\ \A j \in (i + 1)..Len(v) : IsDigit(v[j])}
    IN  IF at = {} THEN v
        ELSE SubSeq(v, 1, (CHOOSE i \in at : TRUE) - 1)

\* the frame is a request the claim is about: TCP to port 80, more than 10
\* bytes of payload, a method prefix
IsHttpRequestFrame ==
    /\ dparsed.protocol = PROTOCOL_TCP
    /\ dparsed.destPort = PORT_HTTP
    /\ dparsed.payloadLength > 10
    /\ SubSeq(HttpText, 1, 4) \in HTTP_METHODS

\* C24: for every TCP destination-port-80 payload longer than 10 bytes that
\* starts with a method prefix and contains a Host header line in its first
\* 2048 bytes, whatever the case of the header name, the name inspect
\* returns is the header value up to the end of the line, trimmed, with a
\* trailing :port removed.
C24_HostExtraction ==
    (Inspected /\ IsHttpRequestFrame) =>
        \A p \in 1..Len(HttpText) :
            (HostLineAt(HttpText, p) /\ HostLineValue(HttpText, p) # <<>>)
                => ddpi.sni = WithoutPort(HostLineValue(HttpText, p))

\* the same for header names written Host or host, the two the pattern of
\* extractHTTPHost accepts, in requests where no earlier header name ends in
\* "host"
C24_HostCapitalOrLower ==
    (Inspected /\ IsHttpRequestFrame /\ dframe # HttpTwoHostsFrame) =>
        \A p \in 1..Len(HttpText) :
            (/\ HostLineAt(HttpText, p)
             /\ SubSeq(HttpText, p + 1, p + 4) = SubSeq(HostName, 2, 5)
             /\ HostLineValue(HttpText, p) # <<>>)
                => ddpi.sni = WithoutPort(HostLineValue(HttpText, p))

\* a request with the lines "X-Host: zoom.us" and "Host: x.io" from which
\* the name zoom.us is taken
C24_OtherHeaderTaken ==
    /\ Inspected
    /\ dframe = HttpTwoHostsFrame
    /\ \E p \in 1..Len(HttpText) :
           HostLineAt(HttpText, p) /\ HostLineValue(HttpText, p) = NameOther
    /\ ddpi.sni = NameZoom

\* a request with the line "HOST: zoom.us" from which no name is taken
C24_UpperCaseMissed ==
    /\ Inspected
    /\ IsHttpRequestFrame
    /\ \E p \in 1..Len(HttpText) :
           /\ HostLineAt(HttpText, p)
           /\ SubSeq(HttpText, p, p + 4) = <<72, 79, 83, 84, 58>>
           /\ HostLineValue(HttpText, p) = NameZoom
    /\ ddpi.sni = Null
    /\ ddpi.appType = APP_HTTP

-----------------------------------------------------------------------------
(* Claims about verdicts along a flow, checked under SpecFlows             *)

\* the descriptors and the DPI results of the first n records of the run,
\* each record dissected and inspected by itself; entry i + 1 is record i
RECURSIVE ParsedUpTo(_)
ParsedUpTo(n) ==
    IF n = 0 THEN <<>> ELSE Append(ParsedUpTo(n - 1), ParsedAt(n - 1))

RECURSIVE DpiUpTo(_)
DpiUpTo(n) ==
    IF n = 0 THEN <<>>
    ELSE Append(DpiUpTo(n - 1),
                IF ParsedAt(n - 1).ok THEN DpiAt(n - 1) ELSE NullObj)

RunView == [parsed |-> ParsedUpTo(idx), dpi |-> DpiUpTo(idx)]

\* in the view v, records i and j are dissected and of one five-tuple
SameFlow(v, i, j) ==
    /\ v.parsed[i + 1].ok /\ v.parsed[j + 1].ok
    /\ v.parsed[i + 1].fiveTuple = v.parsed[j + 1].fiveTuple

\* the records up to i of the flow of record i that carry a name
NamedUpTo(v, i) == {j \in 0..i : SameFlow(v, j, i) /\ Truthy(v.dpi[j + 1].sni)}

\* the first record of the flow of record i
FirstOfFlow(v, i) ==
    CHOOSE j \in 0..i :
        SameFlow(v, j, i) /\ \A h \in 0..(j - 1) : ~SameFlow(v, h, i)

\* the first record up to i of the flow of record i that carries a name
NamingPacket(v, i) ==
    CHOOSE j \in NamedUpTo(v, i) : \A h \in NamedUpTo(v, i) : j <= h

\* the name and the label the flow of record i has when record i is judged
EffectiveName(v, i) ==
    IF NamedUpTo(v, i) # {} THEN v.dpi[NamingPacket(v, i) + 1].sni
    ELSE v.dpi[i + 1].sni

EffectiveLabel(v, i) ==
    IF NamedUpTo(v, i) # {} THEN v.dpi[NamingPacket(v, i) + 1].appType
    ELSE v.dpi[FirstOfFlow(v, i) + 1].appType

\* the verdict of the rules on record i with its effective name and label
EffectiveVerdict(v, i) ==
    \E rule \in ruleSnap :
        RuleMatches(rule, v.parsed[i + 1],
                    [sni      |-> EffectiveName(v, i),
                     appType  |-> EffectiveLabel(v, i),
                     dnsQuery |-> v.dpi[i + 1].dnsQuery])

\* C23: the rules are evaluated against the effective name and label, the
\* flow's adopted name before the packet's own, so that from the packet at
\* which a flow first has a non-empty name onward every later packet of the
\* flow gets the verdict of that packet, whatever its own DPI result.
C23_VerdictInheritance ==
    LET v == RunView IN
    \A k \in 1..Len(runAcc.packetSummaries) :
        LET s == runAcc.packetSummaries[k] IN
        /\ s.blocked = EffectiveVerdict(v, s.index)
        /\ \A j \in 1..(k - 1) :
               LET t == runAcc.packetSummaries[j] IN
               (SameFlow(v, t.index, s.index) /\ NamedUpTo(v, t.index) # {})
                   => s.blocked = t.blocked

\* a flow named zoom.us by its second packet and blocked by a domain rule
\* from then on: its third packet, a ClientHello for x.io that no rule of
\* the snapshot matches by itself, is blocked like the second
C23_Witness ==
    LET v == RunView IN
    /\ Len(runAcc.packetSummaries) = 3
    /\ SameFlow(v, 0, 2) /\ SameFlow(v, 1, 2)
    /\ ~Truthy(v.dpi[1].sni)
    /\ NamedUpTo(v, 2) # {}
    /\ NamingPacket(v, 2) = 1
    /\ Truthy(v.dpi[3].sni) /\ v.dpi[3].sni # v.dpi[2].sni
    /\ ~isBlocked(v.parsed[3], v.dpi[3], ruleSnap)
    /\ ~runAcc.packetSummaries[1].blocked
    /\ runAcc.packetSummaries[2].blocked
    /\ runAcc.packetSummaries[3].blocked

-----------------------------------------------------------------------------
(* Claims about the detected-domain list, checked under SpecFlows          *)

\* record i carries a name that no earlier record of the run carries
FirstSeen(v, i) ==
    /\ v.parsed[i + 1].ok
    /\ Truthy(v.dpi[i + 1].sni)
    /\ \A h \in 0..(i - 1) :
           v.parsed[h + 1].ok => v.dpi[h + 1].sni # v.dpi[i + 1].sni

\* C25: in every state of a run the detected-domain list holds no two
\* entries with the same domain, holds an entry for every non-empty name
\* extracted from a packet processed so far, keeps the entries in
\* first-seen order, and each entry's application is the label of the
\* first packet on which the name was extracted.
C25_DetectedDomains ==
    LET v     == RunView
        first == SelectSeq([j \in 1..idx |-> j - 1], LAMBDA i : FirstSeen(v, i))
        list  == runAcc.detectedDomains
    IN  /\ \A a, b \in 1..Len(list) : list[a].domain = list[b].domain => a = b
        /\ \A i \in 0..(idx - 1) :
               (v.parsed[i + 1].ok /\ Truthy(v.dpi[i + 1].sni))
                   => \E a \in 1..Len(list) : list[a].domain = v.dpi[i + 1].sni
        /\ Len(list) = Len(first)
        /\ \A a \in 1..Len(list) :
               /\ list[a].domain = v.dpi[first[a] + 1].sni
               /\ list[a].appType = v.dpi[first[a] + 1].appType
        /\ RunCompleted => analysis.result.detectedDomains = list

\* a completed run over a DNS query for zoom.us, a ClientHello for zoom.us
\* and a ClientHello for x.io: two entries, zoom.us with the label DNS of the
\* query, then x.io
C25_Witness ==
    LET v == RunView IN
    /\ RunCompleted
    /\ Len(runPackets) = 3
    /\ \A i \in 1..3 : v.parsed[i].ok
    /\ v.dpi[1].sni = NameZoom /\ v.dpi[1].appType = APP_DNS
    /\ v.dpi[2].sni = NameZoom /\ v.dpi[2].appType # APP_DNS
    /\ v.dpi[3].sni = NameOther
    /\ analysis.result.detectedDomains
           = <<[domain |-> NameZoom, appType |-> APP_DNS],
               [domain |-> NameOther, appType |-> v.dpi[3].appType]>>

-----------------------------------------------------------------------------
(* Claims about records the dissector rejects, checked under SpecFlows     *)

\* the loop is at a record that parsePacket rejects
AtBadRecord == pc = "loop" /\ idx < Len(runPackets) /\ ~ParsedAt(idx).ok

\* number of dissected records among the first n
RECURSIVE DissectedAmong(_)
DissectedAmong(n) ==
    IF n = 0 THEN 0
    ELSE DissectedAmong(n - 1) + (IF ParsedAt(n - 1).ok THEN 1 ELSE 0)

\* C26: when the dissection of a record returns null, the step over it
\* leaves the parsed count, byte total, per-transport counts, histograms,
\* flow table, forwarded and dropped counters, detected-domain list and
\* summary list as they are, the run does not abort and goes on to the next
\* record; only the total-packet count of the stored result includes the
\* record.
C26_SkipBadPacket ==
    /\ [][AtBadRecord =>
             /\ runAcc' = runAcc
             /\ idx' = idx + 1
             /\ pc' = "loop"
             /\ err' = err
             /\ analysis' = analysis]_vars
    /\ [](RunCompleted =>
             /\ analysis.result.stats.totalPackets = Len(runPackets)
             /\ analysis.result.stats.parsedPackets = DissectedAmong(Len(runPackets))
             /\ Len(analysis.result.packets) = DissectedAmong(Len(runPackets)))

\* a completed run of three records whose second was rejected: the result
\* counts three packets, two of them parsed, and has the summaries of
\* records 0 and 2
C26_Witness ==
    /\ RunCompleted
    /\ Len(runPackets) = 3
    /\ ParsedAt(0).ok /\ ~ParsedAt(1).ok /\ ParsedAt(2).ok
    /\ analysis.result.stats.totalPackets = 3
    /\ analysis.result.stats.parsedPackets = 2
    /\ Len(analysis.result.packets) = 2
    /\ analysis.result.packets[2].index = 2

-----------------------------------------------------------------------------
(* Claims about the counters, checked under SpecFlows                      *)

\* the five-tuples of the dissected records of the view
TuplesOf(v) ==
    {v.parsed[i].fiveTuple : i \in {j \in 1..Len(v.parsed) : v.parsed[j].ok}}

\* C28: after every processed record, parsedPackets = forwarded + dropped
\* = tcp + udp + other = the sum of the protocol histogram = the sum of the
\* application histogram = the sum of the flows' packet counts; totalBytes
\* is the sum of the flows' byte counts; parsedPackets <= totalPackets; the
\* number of flows is the number of distinct five-tuples among the parsed
\* packets; no flow is ever removed and every flow holds at least one
\* packet.
C28_CounterConservation ==
    /\ [](LET v == RunView
              n == runAcc.parsedCount
          IN  /\ n = runAcc.forwarded + runAcc.dropped
              /\ n = runAcc.tcpCount + runAcc.udpCount + runAcc.otherCount
              /\ n = HistogramTotal(runAcc.protocolCounts,
                                    DOMAIN runAcc.protocolCounts)
              /\ n = HistogramTotal(runAcc.appCounts, DOMAIN runAcc.appCounts)
              /\ n = FlowTotal(runAcc.flows, "packets")
              /\ runAcc.totalBytes = FlowTotal(runAcc.flows, "bytes")
              /\ n = Cardinality({j \in 1..idx : v.parsed[j].ok})
              /\ n <= Len(runPackets)
              /\ Len(runAcc.flows) = Cardinality(TuplesOf(v))
              /\ {runAcc.flows[k].fiveTuple : k \in 1..Len(runAcc.flows)}
                     = TuplesOf(v)
              /\ \A k \in 1..Len(runAcc.flows) : runAcc.flows[k].packets >= 1
              /\ RunCompleted =>
                     /\ analysis.result.stats.parsedPackets = n
                     /\ analysis.result.stats.totalPackets = Len(runPackets)
                     /\ analysis.result.stats.totalFlows = Len(runAcc.flows)
                     /\ analysis.result.stats.forwarded
                            + analysis.result.stats.dropped = n
                     /\ analysis.result.stats.tcpPackets
                            + analysis.result.stats.udpPackets
                            + analysis.result.stats.otherPackets = n)
    /\ [][\A k \in 1..Len(runAcc.flows) :
              /\ k <= Len(runAcc'.flows)
              /\ runAcc'.flows[k].fiveTuple = runAcc.flows[k].fiveTuple
              /\ runAcc'.flows[k].packets >= runAcc.flows[k].packets]_vars

\* a completed run of three dissected records in two flows, one packet
\* dropped and two forwarded
C28_Witness ==
    /\ RunCompleted
    /\ runAcc.parsedCount = 3
    /\ Len(runAcc.flows) = 2
    /\ runAcc.flows[1].packets = 2 /\ runAcc.flows[2].packets = 1
    /\ runAcc.dropped = 1 /\ runAcc.forwarded = 2
    /\ runAcc.tcpCount = 2 /\ runAcc.udpCount = 1
    /\ analysis.result.stats.totalFlows = 2

-----------------------------------------------------------------------------
(* Claims about packets of a blocked flow, checked under SpecFlows         *)

\* the flow of summary k was blocked by an earlier summary of the run
BlockedBefore(v, k) ==
    \E j \in 1..(k - 1) :
        /\ runAcc.packetSummaries[j].blocked
        /\ SameFlow(v, runAcc.packetSummaries[j].index,
                    runAcc.packetSummaries[k].index)

\* C29: within one run, after a flow's blocked flag has become true, every
\* later packet of the flow is given a blocked verdict: it is counted as
\* dropped, never as forwarded, and its summary has blocked = true.
C29_BlockedFlowDrops ==
    LET v == RunView IN
    /\ \A k \in 1..Len(runAcc.packetSummaries) :
           BlockedBefore(v, k) => runAcc.packetSummaries[k].blocked
    /\ runAcc.dropped
           = Cardinality({k \in 1..Len(runAcc.packetSummaries) :
                             runAcc.packetSummaries[k].blocked})
    /\ runAcc.forwarded
           = Cardinality({k \in 1..Len(runAcc.packetSummaries) :
                             ~runAcc.packetSummaries[k].blocked})

\* the same for flows blocked by an ip or a domain rule, or blocked when
\* they already have a name
C29_NamedOrAddressed ==
    LET v == RunView IN
    \A k \in 1..Len(runAcc.packetSummaries) :
        \A j \in 1..(k - 1) :
            LET s == runAcc.packetSummaries[k]
                t == runAcc.packetSummaries[j] IN
            (/\ t.blocked
             /\ SameFlow(v, t.index, s.index)
             /\ \/ NamedUpTo(v, t.index) # {}
                \/ \E rule \in ruleSnap :
                       rule.type = TYPE_IP
                       /\ RuleMatches(rule, v.parsed[t.index + 1], v.dpi[t.index + 1]))
                => s.blocked

\* a completed run under the app rule https: the data segment that opens
\* the flow is dropped and blocks the flow, the ClientHello for zoom.us that
\* follows on the flow is forwarded
C29_ForwardedOnBlockedFlow ==
    LET v == RunView IN
    /\ RunCompleted
    /\ Len(runAcc.packetSummaries) >= 2
    /\ SameFlow(v, 0, 1)
    /\ ~Truthy(v.dpi[1].sni) /\ v.dpi[1].appType = APP_HTTPS
    /\ v.dpi[2].sni = NameZoom
    /\ runAcc.packetSummaries[1].blocked
    /\ ~runAcc.packetSummaries[2].blocked
    /\ runAcc.flows[1].blocked
    /\ analysis.result.flows[1].blocked
    /\ analysis.result.stats.forwarded >= 1

-----------------------------------------------------------------------------
(* Claims about the names summaries show, checked under SpecFlows          *)

\* a name as a summary stores it: the empty string for none
Shown(name) == OrElse(name, <<>>)

\* what the summary shows, as a DPI result for RuleMatches
ShownDpi(s) == [sni |-> s.sni, appType |-> s.appType, dnsQuery |-> Null]

\* C30: the name and the label of every summary are the effective name and
\* label isBlocked was evaluated against for the packet, so a summary
\* blocked by a domain rule shows a name containing the rule's value, and a
\* summary with blocked = false shows no name or label that an active rule
\* matches.
C30_SummaryShowsVerdictInputs ==
    LET v == RunView IN
    \A k \in 1..Len(runAcc.packetSummaries) :
        LET s == runAcc.packetSummaries[k]
            p == v.parsed[s.index + 1] IN
        /\ s.sni = Shown(EffectiveName(v, s.index))
        /\ s.appType = EffectiveLabel(v, s.index)
        /\ s.blocked = \E rule \in ruleSnap : RuleMatches(rule, p, ShownDpi(s))

\* the part that holds: the label shown is always the effective label, and
\* the name shown is the effective name whenever the packet carries no name
\* or the flow had none before it
C30_LabelAndOwnName ==
    LET v == RunView IN
    \A k \in 1..Len(runAcc.packetSummaries) :
        LET s == runAcc.packetSummaries[k]
            i == s.index IN
        /\ s.appType = EffectiveLabel(v, i)
        /\ (~Truthy(v.dpi[i + 1].sni) \/ NamingPacket(v, i) = i)
               => s.sni = Shown(EffectiveName(v, i))
        /\ s.sni = Shown(OrElse(v.dpi[i + 1].sni, EffectiveName(v, i)))

\* under the domain rule ZOOM alone: a flow named zoom.us whose second
\* packet, a ClientHello for x.io, is blocked and shown with the name x.io
C30_BlockedUnderOtherName ==
    LET v == RunView IN
    /\ Len(runAcc.packetSummaries) >= 2
    /\ SameFlow(v, 0, 1)
    /\ v.dpi[1].sni = NameZoom /\ v.dpi[2].sni = NameOther
    /\ \A rule \in ruleSnap : rule.type = TYPE_DOMAIN
    /\ runAcc.packetSummaries[2].blocked
    /\ runAcc.packetSummaries[2].sni = NameOther
    /\ ~isBlocked(v.parsed[2], ShownDpi(runAcc.packetSummaries[2]), ruleSnap)

\* under the same rule: a flow named x.io whose second packet, a
\* ClientHello for zoom.us, is forwarded and shown with the name zoom.us
C30_ForwardedUnderRuleName ==
    LET v == RunView IN
    /\ Len(runAcc.packetSummaries) >= 2
    /\ SameFlow(v, 0, 1)
    /\ v.dpi[1].sni = NameOther /\ v.dpi[2].sni = NameZoom
    /\ ruleSnap # {}
    /\ \A rule \in ruleSnap : rule.type = TYPE_DOMAIN
    /\ ~runAcc.packetSummaries[2].blocked
    /\ runAcc.packetSummaries[2].sni = NameZoom
    /\ isBlocked(v.parsed[2], ShownDpi(runAcc.packetSummaries[2]), ruleSnap)

-----------------------------------------------------------------------------
(* Claims about the completion of a run                                    *)

\* the positions of the completed notifications
CompletedNotes == {k \in 1..Len(emitted) : emitted[k].status = "completed"}

\* a step of the run that writes the document: every change of it after the
\* upload route created it
RunWrites == pc # "idle" /\ analysis' # analysis

\* a run writes at most once, from processing, a completed patch with the
\* aggregates or a failed patch with the error text
WritesAtMostOnce ==
    [][RunWrites =>
          /\ analysis.status = "processing"
          /\ \/ /\ analysis'.status = "completed"
                /\ analysis'.result
                       = CompletedPatch(runHeader, Len(runPackets), runAcc)
             \/ /\ analysis'.status = "failed"
                /\ analysis'.error = err /\ err # ""]_vars

\* the completed notification follows the completed patch, carries 100, is
\* emitted once and last, and never by a run stored as failed
CompletedNoteIsLast ==
    /\ \A k \in CompletedNotes :
           /\ analysis.status = "completed"
           /\ emitted[k].progress = 100
           /\ k = Len(emitted)
    /\ Cardinality(CompletedNotes) <= 1
    /\ analysis.status = "completed" => Cardinality(CompletedNotes) = 1
    /\ analysis.status = "failed" => CompletedNotes = {}

\* C27: a run writes the result store exactly once, a completed patch with
\* the aggregates or a failed patch with the error text; the completed
\* patch is written before the completed notification with progress 100,
\* which is emitted exactly once and is the last of the run; no completed
\* notification comes from a run whose stored status is failed.
C27_CompletionProtocol ==
    /\ WritesAtMostOnce
    /\ [](RunOver => analysis.status \in {"completed", "failed"})
    /\ []CompletedNoteIsLast

\* the same with 'exactly once' required of the runs whose promise
\* resolves only
C27_ResolvedRuns ==
    /\ WritesAtMostOnce
    /\ [](pc = "resolved" => analysis.status \in {"completed", "failed"})
    /\ []CompletedNoteIsLast

\* a run that is over without having written: the save of the results
\* failed, and then the save of the failure
C27_NothingWritten ==
    /\ pc = "rejected"
    /\ idx = Len(runPackets) /\ idx > 0
    /\ err = ErrDb
    /\ analysis.status = "processing"
    /\ emitted[Len(emitted)] = Note("processing", 95)

-----------------------------------------------------------------------------
(* Claims about runs in flight together                                    *)

\* the accumulators of runAnalysis on `file` alone, under the rules `rules`
AloneAcc(file, rules) ==
    LET parsed == parsePcapFile(file)
    IN  IF parsed.ok THEN LoopOver(EmptyAcc, parsed.packets, 0, rules)
        ELSE EmptyAcc

\* the document runAnalysis leaves for `file` alone, under the rules `rules`,
\* when none of its database calls throws
AloneDoc(file, rules) ==
    LET parsed == parsePcapFile(file)
    IN  IF parsed.ok
        THEN [status |-> "completed", error |-> "",
              result |-> CompletedPatch(parsed.globalHeader, Len(parsed.packets),
                                        AloneAcc(file, rules))]
        ELSE [status |-> "failed", error |-> parsed.error, result |-> <<>>]

\* the run has written its document and no database call of it threw
RanClean(run) == run.pc = "resolved" /\ run.err # ErrDb

=============================================================================
